---- MODULE Spec2Model ----
(***************************************************************************)
(* AuditIQ front end (static/js/app.js and the page that loads it).        *)
(*                                                                         *)
(* Text is a sequence of JSON tokens, a string is a sequence of            *)
(* characters, and a JavaScript value is a pair <<tag, payload>> tagged    *)
(* with its type.  The event handlers of app.js are the actions.           *)
(***************************************************************************)
EXTENDS Integers, Sequences, FiniteSets, TLC

(***************************************************************************)
(* Strings the program and the documents use.                              *)
(***************************************************************************)
sAuditReport == <<"a","u","d","i","t","_","r","e","p","o","r","t">>
sExceptions  == <<"e","x","c","e","p","t","i","o","n","s">>
sAnalysis    == <<"a","n","a","l","y","s","i","s">>
sSummary     == <<"s","u","m","m","a","r","y">>
sFindings    == <<"f","i","n","d","i","n","g","s">>
sParticipants == <<"p","a","r","t","i","c","i","p","a","n","t","s">>
sSeverity    == <<"s","e","v","e","r","i","t","y">>
sBranch      == <<"b","r","a","n","c","h">>
sTitle       == <<"t","i","t","l","e">>
sDescription == <<"d","e","s","c","r","i","p","t","i","o","n">>
sRecommendation == <<"r","e","c","o","m","m","e","n","d","a","t","i","o","n">>
sError       == <<"e","r","r","o","r">>
sHigh        == <<"h","i","g","h">>
sMedium      == <<"m","e","d","i","u","m">>
sLow         == <<"l","o","w">>
sUnspecifiedLc == <<"u","n","s","p","e","c","i","f","i","e","d">>
sUnspecified == <<"U","n","s","p","e","c","i","f","i","e","d">>
sConstructor == <<"c","o","n","s","t","r","u","c","t","o","r">>
sToString    == <<"t","o","S","t","r","i","n","g">>
sProto       == <<"_","_","p","r","o","t","o","_","_">>

\* A text as the sequence of its characters.
RECURSIVE Chars(_)
Chars(str) ==
    IF Len(str) = 0 THEN <<>>
    ELSE <<SubSeq(str, 1, 1)>> \o Chars(SubSeq(str, 2, Len(str)))

(***************************************************************************)
(* JavaScript values.                                                      *)
(***************************************************************************)
JUndef     == <<"undef", <<>>>>
JNull      == <<"null", <<>>>>
JBool(b)   == <<"bool", b>>
JNum(n)    == <<"num", n>>
JStr(s)    == <<"str", s>>
JArr(xs)   == <<"arr", xs>>
JObj(ps)   == <<"obj", ps>>
\* a built-in function or object inherited from Object.prototype, with the
\* string it converts to
JNative(s) == <<"native", s>>

TagOf(x) == x[1]
ValOf(x) == x[2]

\* ToBoolean
Truthy(x) ==
    CASE TagOf(x) = "undef" -> FALSE
      [] TagOf(x) = "null"  -> FALSE
      [] TagOf(x) = "bool"  -> ValOf(x)
      [] TagOf(x) = "num"   -> ValOf(x) # 0
      [] TagOf(x) = "nan"   -> FALSE
      [] TagOf(x) = "str"   -> ValOf(x) # <<>>
      [] OTHER         -> TRUE

Nullish(x) == TagOf(x) \in {"undef", "null"}

Digits == <<"0","1","2","3","4","5","6","7","8","9">>

IsDigit(c) == \E d \in 1..10 : Digits[d] = c

DigitVal(c) == (CHOOSE d \in 1..10 : Digits[d] = c) - 1

RECURSIVE DigitsToNat(_)
DigitsToNat(s) ==
    IF s = <<>> THEN 0
    ELSE 10 * DigitsToNat(SubSeq(s, 1, Len(s) - 1)) + DigitVal(s[Len(s)])

RECURSIVE NatToDigits(_)
NatToDigits(n) ==
    IF n < 10 THEN <<Digits[n + 1]>>
    ELSE Append(NatToDigits(n \div 10), Digits[(n % 10) + 1])

\* a < b for two canonical digit strings (no leading zero), of any length
DigitsLess(a, b) ==
    \/ Len(a) < Len(b)
    \/ /\ Len(a) = Len(b)
       /\ \E i \in 1..Len(a) :
             /\ SubSeq(a, 1, i - 1) = SubSeq(b, 1, i - 1)
             /\ DigitVal(a[i]) < DigitVal(b[i])

\* the largest array index, 2^32 - 2
MaxArrayIndex == <<"4","2","9","4","9","6","7","2","9","4">>

\* A property key that is a canonical array index ("0", "7", "12",
\* "4294967294"; not "01", not "4294967295").
IsArrayIndex(k) ==
    /\ k # <<>>
    /\ \A i \in 1..Len(k) : IsDigit(k[i])
    /\ (Len(k) = 1 \/ k[1] # "0")
    /\ ~DigitsLess(MaxArrayIndex, k)

(***************************************************************************)
(* Ordinary objects: own properties as a sequence of <<key, value>> in the *)
(* order Object.keys and JSON.stringify enumerate them: array-index keys   *)
(* ascending, then the other keys in creation order.                       *)
(***************************************************************************)
HasOwn(ps, k) == \E i \in 1..Len(ps) : ps[i][1] = k

OwnIndex(ps, k) == CHOOSE i \in 1..Len(ps) : ps[i][1] = k

\* does the property <<k, _>> come before the existing property p?
KeyBefore(k, p) ==
    IF IsArrayIndex(k)
    THEN ~IsArrayIndex(p[1]) \/ DigitsLess(k, p[1])
    ELSE FALSE

DefineProp(ps, k, val) ==
    IF HasOwn(ps, k)
    THEN [ps EXCEPT ![OwnIndex(ps, k)] = <<k, val>>]
    ELSE LET before == {i \in 1..Len(ps) : ~KeyBefore(k, ps[i])}
             n == Cardinality(before)
         IN SubSeq(ps, 1, n) \o <<<<k, val>>>> \o SubSeq(ps, n + 1, Len(ps))

ObjectKeys(ps) == [i \in 1..Len(ps) |-> ps[i][1]]

\* The methods every ordinary object inherits from Object.prototype, beside
\* constructor, and the accessor __proto__.
ProtoMethods ==
    {sToString,
     <<"_","_","d","e","f","i","n","e","G","e","t","t","e","r","_","_">>,
     <<"_","_","d","e","f","i","n","e","S","e","t","t","e","r","_","_">>,
     <<"h","a","s","O","w","n","P","r","o","p","e","r","t","y">>,
     <<"_","_","l","o","o","k","u","p","G","e","t","t","e","r","_","_">>,
     <<"_","_","l","o","o","k","u","p","S","e","t","t","e","r","_","_">>,
     <<"i","s","P","r","o","t","o","t","y","p","e","O","f">>,
     <<"p","r","o","p","e","r","t","y","I","s","E","n","u","m","e","r","a","b","l","e">>,
     <<"v","a","l","u","e","O","f">>,
     <<"t","o","L","o","c","a","l","e","S","t","r","i","n","g">>}

\* Members every ordinary object inherits from Object.prototype.
ProtoKeys == {sConstructor, sProto} \cup ProtoMethods

\* the inherited member: a function under the text it converts to, and for
\* __proto__ the prototype object
ProtoMember(k) ==
    CASE k = sConstructor -> JNative(Chars("function Object() { [native code] }"))
      [] k = sProto       -> JNative(Chars("[object Object]"))
      [] OTHER            -> JNative(Chars("function ") \o k
                                       \o Chars("() { [native code] }"))

\* obj[k] on an ordinary object
GetOwnOrProto(ps, k) ==
    IF HasOwn(ps, k) THEN ps[OwnIndex(ps, k)][2]
    ELSE IF k \in ProtoKeys THEN ProtoMember(k)
    ELSE JUndef

\* x.k for a non-nullish x (the caller checks Nullish first: it throws)
Get(x, k) ==
    IF TagOf(x) = "obj" THEN GetOwnOrProto(ValOf(x), k) ELSE JUndef

\* obj[k] = val by assignment: __proto__ is an accessor whose setter ignores
\* a value that is neither an object nor null, and creates no property.
SetProp(ps, k, val) ==
    IF k = sProto /\ ~HasOwn(ps, k)
    THEN ps
    ELSE DefineProp(ps, k, val)

(***************************************************************************)
(* JSON text: a sequence of tokens.                                        *)
(***************************************************************************)
Tok(k)   == [k |-> k, s |-> <<>>]
TStr(s)  == [k |-> "str", s |-> s]
TNum(n)  == [k |-> "num", s |-> NatToDigits(n)]
\* white space of JSON text: space, tab, line feed, carriage return
WS       == Tok("ws")
\* a form feed: white space to String.prototype.trim, not to JSON.parse
FF       == Tok("FF")
LB       == Tok("{")
RB       == Tok("}")
LS       == Tok("[")
RS       == Tok("]")
COLON    == Tok(":")
COMMA    == Tok(",")
TNULL    == Tok("null")
TTRUE    == Tok("true")
TFALSE   == Tok("false")

RECURSIVE SkipWs(_, _)
SkipWs(toks, i) ==
    IF i <= Len(toks) /\ toks[i].k = "ws" THEN SkipWs(toks, i + 1) ELSE i

PFail == [ok |-> FALSE, v |-> JUndef, i |-> 0]
POk(val, i) == [ok |-> TRUE, v |-> val, i |-> i]

RECURSIVE ParseValue(_, _)
RECURSIVE ParseArrItems(_, _, _)
RECURSIVE ParseObjItems(_, _, _)

ParseValue(toks, i0) ==
    LET i == SkipWs(toks, i0) IN
    IF i > Len(toks) THEN PFail
    ELSE CASE toks[i].k = "null"  -> POk(JNull, i + 1)
           [] toks[i].k = "true"  -> POk(JBool(TRUE), i + 1)
           [] toks[i].k = "false" -> POk(JBool(FALSE), i + 1)
           [] toks[i].k = "num"   -> POk(JNum(DigitsToNat(toks[i].s)), i + 1)
           [] toks[i].k = "str"   -> POk(JStr(toks[i].s), i + 1)
           [] toks[i].k = "["     ->
                LET j == SkipWs(toks, i + 1) IN
                IF j <= Len(toks) /\ toks[j].k = "]"
                THEN POk(JArr(<<>>), j + 1)
                ELSE ParseArrItems(toks, j, <<>>)
           [] toks[i].k = "{"     ->
                LET j == SkipWs(toks, i + 1) IN
                IF j <= Len(toks) /\ toks[j].k = "}"
                THEN POk(JObj(<<>>), j + 1)
                ELSE ParseObjItems(toks, j, <<>>)
           [] OTHER -> PFail

ParseArrItems(toks, i, acc) ==
    LET r == ParseValue(toks, i) IN
    IF ~r.ok THEN PFail
    ELSE LET j == SkipWs(toks, r.i) IN
         IF j > Len(toks) THEN PFail
         ELSE IF toks[j].k = "," THEN ParseArrItems(toks, j + 1, Append(acc, r.v))
         ELSE IF toks[j].k = "]" THEN POk(JArr(Append(acc, r.v)), j + 1)
         ELSE PFail

ParseObjItems(toks, i0, acc) ==
    LET i == SkipWs(toks, i0) IN
    IF i > Len(toks) \/ toks[i].k # "str" THEN PFail
    ELSE LET c == SkipWs(toks, i + 1) IN
         IF c > Len(toks) \/ toks[c].k # ":" THEN PFail
         ELSE LET r == ParseValue(toks, c + 1) IN
              IF ~r.ok THEN PFail
              ELSE LET j == SkipWs(toks, r.i)
                       ps == DefineProp(acc, toks[i].s, r.v)
                   IN IF j > Len(toks) THEN PFail
                      ELSE IF toks[j].k = "," THEN ParseObjItems(toks, j + 1, ps)
                      ELSE IF toks[j].k = "}" THEN POk(JObj(ps), j + 1)
                      ELSE PFail

\* JSON.parse: [ok |-> FALSE] stands for the SyntaxError it throws
JSONParse(toks) ==
    LET r == ParseValue(toks, 1) IN
    IF r.ok /\ SkipWs(toks, r.i) > Len(toks)
    THEN [ok |-> TRUE, v |-> r.v]
    ELSE [ok |-> FALSE, v |-> JUndef]

RECURSIVE JSONStringify(_)
RECURSIVE StringifyItems(_, _)
RECURSIVE StringifyProps(_, _)

\* JSON.stringify of a value that came out of JSON.parse
JSONStringify(x) ==
    CASE TagOf(x) = "null" -> <<TNULL>>
      [] TagOf(x) = "nan"  -> <<TNULL>>
      [] TagOf(x) = "bool" -> IF ValOf(x) THEN <<TTRUE>> ELSE <<TFALSE>>
      [] TagOf(x) = "num"  -> <<TNum(ValOf(x))>>
      [] TagOf(x) = "str"  -> <<TStr(ValOf(x))>>
      [] TagOf(x) = "arr"  -> <<LS>> \o StringifyItems(ValOf(x), 1) \o <<RS>>
      [] TagOf(x) = "obj"  -> <<LB>> \o StringifyProps(ValOf(x), 1) \o <<RB>>

StringifyItems(xs, i) ==
    IF i > Len(xs) THEN <<>>
    ELSE (IF i > 1 THEN <<COMMA>> ELSE <<>>)
         \o JSONStringify(xs[i]) \o StringifyItems(xs, i + 1)

StringifyProps(ps, i) ==
    IF i > Len(ps) THEN <<>>
    ELSE (IF i > 1 THEN <<COMMA>> ELSE <<>>)
         \o <<TStr(ps[i][1]), COLON>> \o JSONStringify(ps[i][2])
         \o StringifyProps(ps, i + 1)

\* The characters String.prototype.trim removes: the white space of JSON
\* text and the other ECMAScript white space and line terminators (form
\* feed, vertical tab, no-break space, byte order mark, line and paragraph
\* separator, the space separators of Unicode).
TrimSpace == {"ws", "FF", "VT", "NBSP", "BOM", "LS", "PS", "Zs"}

RECURSIVE TrimStart(_)
TrimStart(toks) ==
    IF toks # <<>> /\ toks[1].k \in TrimSpace
    THEN TrimStart(Tail(toks))
    ELSE toks

RECURSIVE TrimEnd(_)
TrimEnd(toks) ==
    IF toks # <<>> /\ toks[Len(toks)].k \in TrimSpace
    THEN TrimEnd(SubSeq(toks, 1, Len(toks) - 1))
    ELSE toks

\* A trim that drops the leading white space only.
TrimLeadingOnly(toks) == TrimStart(toks)

\* String.prototype.trim on text: drops leading and trailing white space
Trim(toks) == TrimEnd(TrimStart(toks))

(***************************************************************************)
(* String and number conversions the handlers rely on.                     *)
(***************************************************************************)
\* The lower-case mapping of the Unicode character database (Unicode 17.0,
\* the version of the engine that runs the page) for the characters outside
\* ASCII: LowerFromRows lists every character that toLowerCase changes into
\* one other character outside ASCII, and LowerToRows lists, at the same
\* place, the character it becomes.  A character outside ASCII is written
\* by its code point, and a table is a sequence of rows of entries of
\* EntryWidth characters each.
LowerFromRows ==
    <<
     "U+00C0 U+00C1 U+00C2 U+00C3 U+00C4 U+00C5 U+00C6 U+00C7 U+00C8 U+00C9 ",
     "U+00CA U+00CB U+00CC U+00CD U+00CE U+00CF U+00D0 U+00D1 U+00D2 U+00D3 ",
     "U+00D4 U+00D5 U+00D6 U+00D8 U+00D9 U+00DA U+00DB U+00DC U+00DD U+00DE ",
     "U+0100 U+0102 U+0104 U+0106 U+0108 U+010A U+010C U+010E U+0110 U+0112 ",
     "U+0114 U+0116 U+0118 U+011A U+011C U+011E U+0120 U+0122 U+0124 U+0126 ",
     "U+0128 U+012A U+012C U+012E U+0132 U+0134 U+0136 U+0139 U+013B U+013D ",
     "U+013F U+0141 U+0143 U+0145 U+0147 U+014A U+014C U+014E U+0150 U+0152 ",
     "U+0154 U+0156 U+0158 U+015A U+015C U+015E U+0160 U+0162 U+0164 U+0166 ",
     "U+0168 U+016A U+016C U+016E U+0170 U+0172 U+0174 U+0176 U+0178 U+0179 ",
     "U+017B U+017D U+0181 U+0182 U+0184 U+0186 U+0187 U+0189 U+018A U+018B ",
     "U+018E U+018F U+0190 U+0191 U+0193 U+0194 U+0196 U+0197 U+0198 U+019C ",
     "U+019D U+019F U+01A0 U+01A2 U+01A4 U+01A6 U+01A7 U+01A9 U+01AC U+01AE ",
     "U+01AF U+01B1 U+01B2 U+01B3 U+01B5 U+01B7 U+01B8 U+01BC U+01C4 U+01C5 ",
     "U+01C7 U+01C8 U+01CA U+01CB U+01CD U+01CF U+01D1 U+01D3 U+01D5 U+01D7 ",
     "U+01D9 U+01DB U+01DE U+01E0 U+01E2 U+01E4 U+01E6 U+01E8 U+01EA U+01EC ",
     "U+01EE U+01F1 U+01F2 U+01F4 U+01F6 U+01F7 U+01F8 U+01FA U+01FC U+01FE ",
     "U+0200 U+0202 U+0204 U+0206 U+0208 U+020A U+020C U+020E U+0210 U+0212 ",
     "U+0214 U+0216 U+0218 U+021A U+021C U+021E U+0220 U+0222 U+0224 U+0226 ",
     "U+0228 U+022A U+022C U+022E U+0230 U+0232 U+023A U+023B U+023D U+023E ",
     "U+0241 U+0243 U+0244 U+0245 U+0246 U+0248 U+024A U+024C U+024E U+0370 ",
     "U+0372 U+0376 U+037F U+0386 U+0388 U+0389 U+038A U+038C U+038E U+038F ",
     "U+0391 U+0392 U+0393 U+0394 U+0395 U+0396 U+0397 U+0398 U+0399 U+039A ",
     "U+039B U+039C U+039D U+039E U+039F U+03A0 U+03A1 U+03A4 U+03A5 U+03A6 ",
     "U+03A7 U+03A8 U+03A9 U+03AA U+03AB U+03CF U+03D8 U+03DA U+03DC U+03DE ",
     "U+03E0 U+03E2 U+03E4 U+03E6 U+03E8 U+03EA U+03EC U+03EE U+03F4 U+03F7 ",
     "U+03F9 U+03FA U+03FD U+03FE U+03FF U+0400 U+0401 U+0402 U+0403 U+0404 ",
     "U+0405 U+0406 U+0407 U+0408 U+0409 U+040A U+040B U+040C U+040D U+040E ",
     "U+040F U+0410 U+0411 U+0412 U+0413 U+0414 U+0415 U+0416 U+0417 U+0418 ",
     "U+0419 U+041A U+041B U+041C U+041D U+041E U+041F U+0420 U+0421 U+0422 ",
     "U+0423 U+0424 U+0425 U+0426 U+0427 U+0428 U+0429 U+042A U+042B U+042C ",
     "U+042D U+042E U+042F U+0460 U+0462 U+0464 U+0466 U+0468 U+046A U+046C ",
     "U+046E U+0470 U+0472 U+0474 U+0476 U+0478 U+047A U+047C U+047E U+0480 ",
     "U+048A U+048C U+048E U+0490 U+0492 U+0494 U+0496 U+0498 U+049A U+049C ",
     "U+049E U+04A0 U+04A2 U+04A4 U+04A6 U+04A8 U+04AA U+04AC U+04AE U+04B0 ",
     "U+04B2 U+04B4 U+04B6 U+04B8 U+04BA U+04BC U+04BE U+04C0 U+04C1 U+04C3 ",
     "U+04C5 U+04C7 U+04C9 U+04CB U+04CD U+04D0 U+04D2 U+04D4 U+04D6 U+04D8 ",
     "U+04DA U+04DC U+04DE U+04E0 U+04E2 U+04E4 U+04E6 U+04E8 U+04EA U+04EC ",
     "U+04EE U+04F0 U+04F2 U+04F4 U+04F6 U+04F8 U+04FA U+04FC U+04FE U+0500 ",
     "U+0502 U+0504 U+0506 U+0508 U+050A U+050C U+050E U+0510 U+0512 U+0514 ",
     "U+0516 U+0518 U+051A U+051C U+051E U+0520 U+0522 U+0524 U+0526 U+0528 ",
     "U+052A U+052C U+052E U+0531 U+0532 U+0533 U+0534 U+0535 U+0536 U+0537 ",
     "U+0538 U+0539 U+053A U+053B U+053C U+053D U+053E U+053F U+0540 U+0541 ",
     "U+0542 U+0543 U+0544 U+0545 U+0546 U+0547 U+0548 U+0549 U+054A U+054B ",
     "U+054C U+054D U+054E U+054F U+0550 U+0551 U+0552 U+0553 U+0554 U+0555 ",
     "U+0556 U+10A0 U+10A1 U+10A2 U+10A3 U+10A4 U+10A5 U+10A6 U+10A7 U+10A8 ",
     "U+10A9 U+10AA U+10AB U+10AC U+10AD U+10AE U+10AF U+10B0 U+10B1 U+10B2 ",
     "U+10B3 U+10B4 U+10B5 U+10B6 U+10B7 U+10B8 U+10B9 U+10BA U+10BB U+10BC ",
     "U+10BD U+10BE U+10BF U+10C0 U+10C1 U+10C2 U+10C3 U+10C4 U+10C5 U+10C7 ",
     "U+10CD U+13A0 U+13A1 U+13A2 U+13A3 U+13A4 U+13A5 U+13A6 U+13A7 U+13A8 ",
     "U+13A9 U+13AA U+13AB U+13AC U+13AD U+13AE U+13AF U+13B0 U+13B1 U+13B2 ",
     "U+13B3 U+13B4 U+13B5 U+13B6 U+13B7 U+13B8 U+13B9 U+13BA U+13BB U+13BC ",
     "U+13BD U+13BE U+13BF U+13C0 U+13C1 U+13C2 U+13C3 U+13C4 U+13C5 U+13C6 ",
     "U+13C7 U+13C8 U+13C9 U+13CA U+13CB U+13CC U+13CD U+13CE U+13CF U+13D0 ",
     "U+13D1 U+13D2 U+13D3 U+13D4 U+13D5 U+13D6 U+13D7 U+13D8 U+13D9 U+13DA ",
     "U+13DB U+13DC U+13DD U+13DE U+13DF U+13E0 U+13E1 U+13E2 U+13E3 U+13E4 ",
     "U+13E5 U+13E6 U+13E7 U+13E8 U+13E9 U+13EA U+13EB U+13EC U+13ED U+13EE ",
     "U+13EF U+13F0 U+13F1 U+13F2 U+13F3 U+13F4 U+13F5 U+1C89 U+1C90 U+1C91 ",
     "U+1C92 U+1C93 U+1C94 U+1C95 U+1C96 U+1C97 U+1C98 U+1C99 U+1C9A U+1C9B ",
     "U+1C9C U+1C9D U+1C9E U+1C9F U+1CA0 U+1CA1 U+1CA2 U+1CA3 U+1CA4 U+1CA5 ",
     "U+1CA6 U+1CA7 U+1CA8 U+1CA9 U+1CAA U+1CAB U+1CAC U+1CAD U+1CAE U+1CAF ",
     "U+1CB0 U+1CB1 U+1CB2 U+1CB3 U+1CB4 U+1CB5 U+1CB6 U+1CB7 U+1CB8 U+1CB9 ",
     "U+1CBA U+1CBD U+1CBE U+1CBF U+1E00 U+1E02 U+1E04 U+1E06 U+1E08 U+1E0A ",
     "U+1E0C U+1E0E U+1E10 U+1E12 U+1E14 U+1E16 U+1E18 U+1E1A U+1E1C U+1E1E ",
     "U+1E20 U+1E22 U+1E24 U+1E26 U+1E28 U+1E2A U+1E2C U+1E2E U+1E30 U+1E32 ",
     "U+1E34 U+1E36 U+1E38 U+1E3A U+1E3C U+1E3E U+1E40 U+1E42 U+1E44 U+1E46 ",
     "U+1E48 U+1E4A U+1E4C U+1E4E U+1E50 U+1E52 U+1E54 U+1E56 U+1E58 U+1E5A ",
     "U+1E5C U+1E5E U+1E60 U+1E62 U+1E64 U+1E66 U+1E68 U+1E6A U+1E6C U+1E6E ",
     "U+1E70 U+1E72 U+1E74 U+1E76 U+1E78 U+1E7A U+1E7C U+1E7E U+1E80 U+1E82 ",
     "U+1E84 U+1E86 U+1E88 U+1E8A U+1E8C U+1E8E U+1E90 U+1E92 U+1E94 U+1E9E ",
     "U+1EA0 U+1EA2 U+1EA4 U+1EA6 U+1EA8 U+1EAA U+1EAC U+1EAE U+1EB0 U+1EB2 ",
     "U+1EB4 U+1EB6 U+1EB8 U+1EBA U+1EBC U+1EBE U+1EC0 U+1EC2 U+1EC4 U+1EC6 ",
     "U+1EC8 U+1ECA U+1ECC U+1ECE U+1ED0 U+1ED2 U+1ED4 U+1ED6 U+1ED8 U+1EDA ",
     "U+1EDC U+1EDE U+1EE0 U+1EE2 U+1EE4 U+1EE6 U+1EE8 U+1EEA U+1EEC U+1EEE ",
     "U+1EF0 U+1EF2 U+1EF4 U+1EF6 U+1EF8 U+1EFA U+1EFC U+1EFE U+1F08 U+1F09 ",
     "U+1F0A U+1F0B U+1F0C U+1F0D U+1F0E U+1F0F U+1F18 U+1F19 U+1F1A U+1F1B ",
     "U+1F1C U+1F1D U+1F28 U+1F29 U+1F2A U+1F2B U+1F2C U+1F2D U+1F2E U+1F2F ",
     "U+1F38 U+1F39 U+1F3A U+1F3B U+1F3C U+1F3D U+1F3E U+1F3F U+1F48 U+1F49 ",
     "U+1F4A U+1F4B U+1F4C U+1F4D U+1F59 U+1F5B U+1F5D U+1F5F U+1F68 U+1F69 ",
     "U+1F6A U+1F6B U+1F6C U+1F6D U+1F6E U+1F6F U+1F88 U+1F89 U+1F8A U+1F8B ",
     "U+1F8C U+1F8D U+1F8E U+1F8F U+1F98 U+1F99 U+1F9A U+1F9B U+1F9C U+1F9D ",
     "U+1F9E U+1F9F U+1FA8 U+1FA9 U+1FAA U+1FAB U+1FAC U+1FAD U+1FAE U+1FAF ",
     "U+1FB8 U+1FB9 U+1FBA U+1FBB U+1FBC U+1FC8 U+1FC9 U+1FCA U+1FCB U+1FCC ",
     "U+1FD8 U+1FD9 U+1FDA U+1FDB U+1FE8 U+1FE9 U+1FEA U+1FEB U+1FEC U+1FF8 ",
     "U+1FF9 U+1FFA U+1FFB U+1FFC U+2126 U+212B U+2132 U+2160 U+2161 U+2162 ",
     "U+2163 U+2164 U+2165 U+2166 U+2167 U+2168 U+2169 U+216A U+216B U+216C ",
     "U+216D U+216E U+216F U+2183 U+24B6 U+24B7 U+24B8 U+24B9 U+24BA U+24BB ",
     "U+24BC U+24BD U+24BE U+24BF U+24C0 U+24C1 U+24C2 U+24C3 U+24C4 U+24C5 ",
     "U+24C6 U+24C7 U+24C8 U+24C9 U+24CA U+24CB U+24CC U+24CD U+24CE U+24CF ",
     "U+2C00 U+2C01 U+2C02 U+2C03 U+2C04 U+2C05 U+2C06 U+2C07 U+2C08 U+2C09 ",
     "U+2C0A U+2C0B U+2C0C U+2C0D U+2C0E U+2C0F U+2C10 U+2C11 U+2C12 U+2C13 ",
     "U+2C14 U+2C15 U+2C16 U+2C17 U+2C18 U+2C19 U+2C1A U+2C1B U+2C1C U+2C1D ",
     "U+2C1E U+2C1F U+2C20 U+2C21 U+2C22 U+2C23 U+2C24 U+2C25 U+2C26 U+2C27 ",
     "U+2C28 U+2C29 U+2C2A U+2C2B U+2C2C U+2C2D U+2C2E U+2C2F U+2C60 U+2C62 ",
     "U+2C63 U+2C64 U+2C67 U+2C69 U+2C6B U+2C6D U+2C6E U+2C6F U+2C70 U+2C72 ",
     "U+2C75 U+2C7E U+2C7F U+2C80 U+2C82 U+2C84 U+2C86 U+2C88 U+2C8A U+2C8C ",
     "U+2C8E U+2C90 U+2C92 U+2C94 U+2C96 U+2C98 U+2C9A U+2C9C U+2C9E U+2CA0 ",
     "U+2CA2 U+2CA4 U+2CA6 U+2CA8 U+2CAA U+2CAC U+2CAE U+2CB0 U+2CB2 U+2CB4 ",
     "U+2CB6 U+2CB8 U+2CBA U+2CBC U+2CBE U+2CC0 U+2CC2 U+2CC4 U+2CC6 U+2CC8 ",
     "U+2CCA U+2CCC U+2CCE U+2CD0 U+2CD2 U+2CD4 U+2CD6 U+2CD8 U+2CDA U+2CDC ",
     "U+2CDE U+2CE0 U+2CE2 U+2CEB U+2CED U+2CF2 U+A640 U+A642 U+A644 U+A646 ",
     "U+A648 U+A64A U+A64C U+A64E U+A650 U+A652 U+A654 U+A656 U+A658 U+A65A ",
     "U+A65C U+A65E U+A660 U+A662 U+A664 U+A666 U+A668 U+A66A U+A66C U+A680 ",
     "U+A682 U+A684 U+A686 U+A688 U+A68A U+A68C U+A68E U+A690 U+A692 U+A694 ",
     "U+A696 U+A698 U+A69A U+A722 U+A724 U+A726 U+A728 U+A72A U+A72C U+A72E ",
     "U+A732 U+A734 U+A736 U+A738 U+A73A U+A73C U+A73E U+A740 U+A742 U+A744 ",
     "U+A746 U+A748 U+A74A U+A74C U+A74E U+A750 U+A752 U+A754 U+A756 U+A758 ",
     "U+A75A U+A75C U+A75E U+A760 U+A762 U+A764 U+A766 U+A768 U+A76A U+A76C ",
     "U+A76E U+A779 U+A77B U+A77D U+A77E U+A780 U+A782 U+A784 U+A786 U+A78B ",
     "U+A78D U+A790 U+A792 U+A796 U+A798 U+A79A U+A79C U+A79E U+A7A0 U+A7A2 ",
     "U+A7A4 U+A7A6 U+A7A8 U+A7AA U+A7AB U+A7AC U+A7AD U+A7AE U+A7B0 U+A7B1 ",
     "U+A7B2 U+A7B3 U+A7B4 U+A7B6 U+A7B8 U+A7BA U+A7BC U+A7BE U+A7C0 U+A7C2 ",
     "U+A7C4 U+A7C5 U+A7C6 U+A7C7 U+A7C9 U+A7CB U+A7CC U+A7CE U+A7D0 U+A7D2 ",
     "U+A7D4 U+A7D6 U+A7D8 U+A7DA U+A7DC U+A7F5 U+FF21 U+FF22 U+FF23 U+FF24 ",
     "U+FF25 U+FF26 U+FF27 U+FF28 U+FF29 U+FF2A U+FF2B U+FF2C U+FF2D U+FF2E ",
     "U+FF2F U+FF30 U+FF31 U+FF32 U+FF33 U+FF34 U+FF35 U+FF36 U+FF37 U+FF38 ",
     "U+FF39 U+FF3A U+10400U+10401U+10402U+10403U+10404U+10405U+10406U+10407",
     "U+10408U+10409U+1040AU+1040BU+1040CU+1040DU+1040EU+1040FU+10410U+10411",
     "U+10412U+10413U+10414U+10415U+10416U+10417U+10418U+10419U+1041AU+1041B",
     "U+1041CU+1041DU+1041EU+1041FU+10420U+10421U+10422U+10423U+10424U+10425",
     "U+10426U+10427U+104B0U+104B1U+104B2U+104B3U+104B4U+104B5U+104B6U+104B7",
     "U+104B8U+104B9U+104BAU+104BBU+104BCU+104BDU+104BEU+104BFU+104C0U+104C1",
     "U+104C2U+104C3U+104C4U+104C5U+104C6U+104C7U+104C8U+104C9U+104CAU+104CB",
     "U+104CCU+104CDU+104CEU+104CFU+104D0U+104D1U+104D2U+104D3U+10570U+10571",
     "U+10572U+10573U+10574U+10575U+10576U+10577U+10578U+10579U+1057AU+1057C",
     "U+1057DU+1057EU+1057FU+10580U+10581U+10582U+10583U+10584U+10585U+10586",
     "U+10587U+10588U+10589U+1058AU+1058CU+1058DU+1058EU+1058FU+10590U+10591",
     "U+10592U+10594U+10595U+10C80U+10C81U+10C82U+10C83U+10C84U+10C85U+10C86",
     "U+10C87U+10C88U+10C89U+10C8AU+10C8BU+10C8CU+10C8DU+10C8EU+10C8FU+10C90",
     "U+10C91U+10C92U+10C93U+10C94U+10C95U+10C96U+10C97U+10C98U+10C99U+10C9A",
     "U+10C9BU+10C9CU+10C9DU+10C9EU+10C9FU+10CA0U+10CA1U+10CA2U+10CA3U+10CA4",
     "U+10CA5U+10CA6U+10CA7U+10CA8U+10CA9U+10CAAU+10CABU+10CACU+10CADU+10CAE",
     "U+10CAFU+10CB0U+10CB1U+10CB2U+10D50U+10D51U+10D52U+10D53U+10D54U+10D55",
     "U+10D56U+10D57U+10D58U+10D59U+10D5AU+10D5BU+10D5CU+10D5DU+10D5EU+10D5F",
     "U+10D60U+10D61U+10D62U+10D63U+10D64U+10D65U+118A0U+118A1U+118A2U+118A3",
     "U+118A4U+118A5U+118A6U+118A7U+118A8U+118A9U+118AAU+118ABU+118ACU+118AD",
     "U+118AEU+118AFU+118B0U+118B1U+118B2U+118B3U+118B4U+118B5U+118B6U+118B7",
     "U+118B8U+118B9U+118BAU+118BBU+118BCU+118BDU+118BEU+118BFU+16E40U+16E41",
     "U+16E42U+16E43U+16E44U+16E45U+16E46U+16E47U+16E48U+16E49U+16E4AU+16E4B",
     "U+16E4CU+16E4DU+16E4EU+16E4FU+16E50U+16E51U+16E52U+16E53U+16E54U+16E55",
     "U+16E56U+16E57U+16E58U+16E59U+16E5AU+16E5BU+16E5CU+16E5DU+16E5EU+16E5F",
     "U+16EA0U+16EA1U+16EA2U+16EA3U+16EA4U+16EA5U+16EA6U+16EA7U+16EA8U+16EA9",
     "U+16EAAU+16EABU+16EACU+16EADU+16EAEU+16EAFU+16EB0U+16EB1U+16EB2U+16EB3",
     "U+16EB4U+16EB5U+16EB6U+16EB7U+16EB8U+1E900U+1E901U+1E902U+1E903U+1E904",
     "U+1E905U+1E906U+1E907U+1E908U+1E909U+1E90AU+1E90BU+1E90CU+1E90DU+1E90E",
     "U+1E90FU+1E910U+1E911U+1E912U+1E913U+1E914U+1E915U+1E916U+1E917U+1E918",
     "U+1E919U+1E91AU+1E91BU+1E91CU+1E91DU+1E91EU+1E91FU+1E920U+1E921">>

\* what the character at the same place of LowerFromRows becomes
LowerToRows ==
    <<
     "U+00E0 U+00E1 U+00E2 U+00E3 U+00E4 U+00E5 U+00E6 U+00E7 U+00E8 U+00E9 ",
     "U+00EA U+00EB U+00EC U+00ED U+00EE U+00EF U+00F0 U+00F1 U+00F2 U+00F3 ",
     "U+00F4 U+00F5 U+00F6 U+00F8 U+00F9 U+00FA U+00FB U+00FC U+00FD U+00FE ",
     "U+0101 U+0103 U+0105 U+0107 U+0109 U+010B U+010D U+010F U+0111 U+0113 ",
     "U+0115 U+0117 U+0119 U+011B U+011D U+011F U+0121 U+0123 U+0125 U+0127 ",
     "U+0129 U+012B U+012D U+012F U+0133 U+0135 U+0137 U+013A U+013C U+013E ",
     "U+0140 U+0142 U+0144 U+0146 U+0148 U+014B U+014D U+014F U+0151 U+0153 ",
     "U+0155 U+0157 U+0159 U+015B U+015D U+015F U+0161 U+0163 U+0165 U+0167 ",
     "U+0169 U+016B U+016D U+016F U+0171 U+0173 U+0175 U+0177 U+00FF U+017A ",
     "U+017C U+017E U+0253 U+0183 U+0185 U+0254 U+0188 U+0256 U+0257 U+018C ",
     "U+01DD U+0259 U+025B U+0192 U+0260 U+0263 U+0269 U+0268 U+0199 U+026F ",
     "U+0272 U+0275 U+01A1 U+01A3 U+01A5 U+0280 U+01A8 U+0283 U+01AD U+0288 ",
     "U+01B0 U+028A U+028B U+01B4 U+01B6 U+0292 U+01B9 U+01BD U+01C6 U+01C6 ",
     "U+01C9 U+01C9 U+01CC U+01CC U+01CE U+01D0 U+01D2 U+01D4 U+01D6 U+01D8 ",
     "U+01DA U+01DC U+01DF U+01E1 U+01E3 U+01E5 U+01E7 U+01E9 U+01EB U+01ED ",
     "U+01EF U+01F3 U+01F3 U+01F5 U+0195 U+01BF U+01F9 U+01FB U+01FD U+01FF ",
     "U+0201 U+0203 U+0205 U+0207 U+0209 U+020B U+020D U+020F U+0211 U+0213 ",
     "U+0215 U+0217 U+0219 U+021B U+021D U+021F U+019E U+0223 U+0225 U+0227 ",
     "U+0229 U+022B U+022D U+022F U+0231 U+0233 U+2C65 U+023C U+019A U+2C66 ",
     "U+0242 U+0180 U+0289 U+028C U+0247 U+0249 U+024B U+024D U+024F U+0371 ",
     "U+0373 U+0377 U+03F3 U+03AC U+03AD U+03AE U+03AF U+03CC U+03CD U+03CE ",
     "U+03B1 U+03B2 U+03B3 U+03B4 U+03B5 U+03B6 U+03B7 U+03B8 U+03B9 U+03BA ",
     "U+03BB U+03BC U+03BD U+03BE U+03BF U+03C0 U+03C1 U+03C4 U+03C5 U+03C6 ",
     "U+03C7 U+03C8 U+03C9 U+03CA U+03CB U+03D7 U+03D9 U+03DB U+03DD U+03DF ",
     "U+03E1 U+03E3 U+03E5 U+03E7 U+03E9 U+03EB U+03ED U+03EF U+03B8 U+03F8 ",
     "U+03F2 U+03FB U+037B U+037C U+037D U+0450 U+0451 U+0452 U+0453 U+0454 ",
     "U+0455 U+0456 U+0457 U+0458 U+0459 U+045A U+045B U+045C U+045D U+045E ",
     "U+045F U+0430 U+0431 U+0432 U+0433 U+0434 U+0435 U+0436 U+0437 U+0438 ",
     "U+0439 U+043A U+043B U+043C U+043D U+043E U+043F U+0440 U+0441 U+0442 ",
     "U+0443 U+0444 U+0445 U+0446 U+0447 U+0448 U+0449 U+044A U+044B U+044C ",
     "U+044D U+044E U+044F U+0461 U+0463 U+0465 U+0467 U+0469 U+046B U+046D ",
     "U+046F U+0471 U+0473 U+0475 U+0477 U+0479 U+047B U+047D U+047F U+0481 ",
     "U+048B U+048D U+048F U+0491 U+0493 U+0495 U+0497 U+0499 U+049B U+049D ",
     "U+049F U+04A1 U+04A3 U+04A5 U+04A7 U+04A9 U+04AB U+04AD U+04AF U+04B1 ",
     "U+04B3 U+04B5 U+04B7 U+04B9 U+04BB U+04BD U+04BF U+04CF U+04C2 U+04C4 ",
     "U+04C6 U+04C8 U+04CA U+04CC U+04CE U+04D1 U+04D3 U+04D5 U+04D7 U+04D9 ",
     "U+04DB U+04DD U+04DF U+04E1 U+04E3 U+04E5 U+04E7 U+04E9 U+04EB U+04ED ",
     "U+04EF U+04F1 U+04F3 U+04F5 U+04F7 U+04F9 U+04FB U+04FD U+04FF U+0501 ",
     "U+0503 U+0505 U+0507 U+0509 U+050B U+050D U+050F U+0511 U+0513 U+0515 ",
     "U+0517 U+0519 U+051B U+051D U+051F U+0521 U+0523 U+0525 U+0527 U+0529 ",
     "U+052B U+052D U+052F U+0561 U+0562 U+0563 U+0564 U+0565 U+0566 U+0567 ",
     "U+0568 U+0569 U+056A U+056B U+056C U+056D U+056E U+056F U+0570 U+0571 ",
     "U+0572 U+0573 U+0574 U+0575 U+0576 U+0577 U+0578 U+0579 U+057A U+057B ",
     "U+057C U+057D U+057E U+057F U+0580 U+0581 U+0582 U+0583 U+0584 U+0585 ",
     "U+0586 U+2D00 U+2D01 U+2D02 U+2D03 U+2D04 U+2D05 U+2D06 U+2D07 U+2D08 ",
     "U+2D09 U+2D0A U+2D0B U+2D0C U+2D0D U+2D0E U+2D0F U+2D10 U+2D11 U+2D12 ",
     "U+2D13 U+2D14 U+2D15 U+2D16 U+2D17 U+2D18 U+2D19 U+2D1A U+2D1B U+2D1C ",
     "U+2D1D U+2D1E U+2D1F U+2D20 U+2D21 U+2D22 U+2D23 U+2D24 U+2D25 U+2D27 ",
     "U+2D2D U+AB70 U+AB71 U+AB72 U+AB73 U+AB74 U+AB75 U+AB76 U+AB77 U+AB78 ",
     "U+AB79 U+AB7A U+AB7B U+AB7C U+AB7D U+AB7E U+AB7F U+AB80 U+AB81 U+AB82 ",
     "U+AB83 U+AB84 U+AB85 U+AB86 U+AB87 U+AB88 U+AB89 U+AB8A U+AB8B U+AB8C ",
     "U+AB8D U+AB8E U+AB8F U+AB90 U+AB91 U+AB92 U+AB93 U+AB94 U+AB95 U+AB96 ",
     "U+AB97 U+AB98 U+AB99 U+AB9A U+AB9B U+AB9C U+AB9D U+AB9E U+AB9F U+ABA0 ",
     "U+ABA1 U+ABA2 U+ABA3 U+ABA4 U+ABA5 U+ABA6 U+ABA7 U+ABA8 U+ABA9 U+ABAA ",
     "U+ABAB U+ABAC U+ABAD U+ABAE U+ABAF U+ABB0 U+ABB1 U+ABB2 U+ABB3 U+ABB4 ",
     "U+ABB5 U+ABB6 U+ABB7 U+ABB8 U+ABB9 U+ABBA U+ABBB U+ABBC U+ABBD U+ABBE ",
     "U+ABBF U+13F8 U+13F9 U+13FA U+13FB U+13FC U+13FD U+1C8A U+10D0 U+10D1 ",
     "U+10D2 U+10D3 U+10D4 U+10D5 U+10D6 U+10D7 U+10D8 U+10D9 U+10DA U+10DB ",
     "U+10DC U+10DD U+10DE U+10DF U+10E0 U+10E1 U+10E2 U+10E3 U+10E4 U+10E5 ",
     "U+10E6 U+10E7 U+10E8 U+10E9 U+10EA U+10EB U+10EC U+10ED U+10EE U+10EF ",
     "U+10F0 U+10F1 U+10F2 U+10F3 U+10F4 U+10F5 U+10F6 U+10F7 U+10F8 U+10F9 ",
     "U+10FA U+10FD U+10FE U+10FF U+1E01 U+1E03 U+1E05 U+1E07 U+1E09 U+1E0B ",
     "U+1E0D U+1E0F U+1E11 U+1E13 U+1E15 U+1E17 U+1E19 U+1E1B U+1E1D U+1E1F ",
     "U+1E21 U+1E23 U+1E25 U+1E27 U+1E29 U+1E2B U+1E2D U+1E2F U+1E31 U+1E33 ",
     "U+1E35 U+1E37 U+1E39 U+1E3B U+1E3D U+1E3F U+1E41 U+1E43 U+1E45 U+1E47 ",
     "U+1E49 U+1E4B U+1E4D U+1E4F U+1E51 U+1E53 U+1E55 U+1E57 U+1E59 U+1E5B ",
     "U+1E5D U+1E5F U+1E61 U+1E63 U+1E65 U+1E67 U+1E69 U+1E6B U+1E6D U+1E6F ",
     "U+1E71 U+1E73 U+1E75 U+1E77 U+1E79 U+1E7B U+1E7D U+1E7F U+1E81 U+1E83 ",
     "U+1E85 U+1E87 U+1E89 U+1E8B U+1E8D U+1E8F U+1E91 U+1E93 U+1E95 U+00DF ",
     "U+1EA1 U+1EA3 U+1EA5 U+1EA7 U+1EA9 U+1EAB U+1EAD U+1EAF U+1EB1 U+1EB3 ",
     "U+1EB5 U+1EB7 U+1EB9 U+1EBB U+1EBD U+1EBF U+1EC1 U+1EC3 U+1EC5 U+1EC7 ",
     "U+1EC9 U+1ECB U+1ECD U+1ECF U+1ED1 U+1ED3 U+1ED5 U+1ED7 U+1ED9 U+1EDB ",
     "U+1EDD U+1EDF U+1EE1 U+1EE3 U+1EE5 U+1EE7 U+1EE9 U+1EEB U+1EED U+1EEF ",
     "U+1EF1 U+1EF3 U+1EF5 U+1EF7 U+1EF9 U+1EFB U+1EFD U+1EFF U+1F00 U+1F01 ",
     "U+1F02 U+1F03 U+1F04 U+1F05 U+1F06 U+1F07 U+1F10 U+1F11 U+1F12 U+1F13 ",
     "U+1F14 U+1F15 U+1F20 U+1F21 U+1F22 U+1F23 U+1F24 U+1F25 U+1F26 U+1F27 ",
     "U+1F30 U+1F31 U+1F32 U+1F33 U+1F34 U+1F35 U+1F36 U+1F37 U+1F40 U+1F41 ",
     "U+1F42 U+1F43 U+1F44 U+1F45 U+1F51 U+1F53 U+1F55 U+1F57 U+1F60 U+1F61 ",
     "U+1F62 U+1F63 U+1F64 U+1F65 U+1F66 U+1F67 U+1F80 U+1F81 U+1F82 U+1F83 ",
     "U+1F84 U+1F85 U+1F86 U+1F87 U+1F90 U+1F91 U+1F92 U+1F93 U+1F94 U+1F95 ",
     "U+1F96 U+1F97 U+1FA0 U+1FA1 U+1FA2 U+1FA3 U+1FA4 U+1FA5 U+1FA6 U+1FA7 ",
     "U+1FB0 U+1FB1 U+1F70 U+1F71 U+1FB3 U+1F72 U+1F73 U+1F74 U+1F75 U+1FC3 ",
     "U+1FD0 U+1FD1 U+1F76 U+1F77 U+1FE0 U+1FE1 U+1F7A U+1F7B U+1FE5 U+1F78 ",
     "U+1F79 U+1F7C U+1F7D U+1FF3 U+03C9 U+00E5 U+214E U+2170 U+2171 U+2172 ",
     "U+2173 U+2174 U+2175 U+2176 U+2177 U+2178 U+2179 U+217A U+217B U+217C ",
     "U+217D U+217E U+217F U+2184 U+24D0 U+24D1 U+24D2 U+24D3 U+24D4 U+24D5 ",
     "U+24D6 U+24D7 U+24D8 U+24D9 U+24DA U+24DB U+24DC U+24DD U+24DE U+24DF ",
     "U+24E0 U+24E1 U+24E2 U+24E3 U+24E4 U+24E5 U+24E6 U+24E7 U+24E8 U+24E9 ",
     "U+2C30 U+2C31 U+2C32 U+2C33 U+2C34 U+2C35 U+2C36 U+2C37 U+2C38 U+2C39 ",
     "U+2C3A U+2C3B U+2C3C U+2C3D U+2C3E U+2C3F U+2C40 U+2C41 U+2C42 U+2C43 ",
     "U+2C44 U+2C45 U+2C46 U+2C47 U+2C48 U+2C49 U+2C4A U+2C4B U+2C4C U+2C4D ",
     "U+2C4E U+2C4F U+2C50 U+2C51 U+2C52 U+2C53 U+2C54 U+2C55 U+2C56 U+2C57 ",
     "U+2C58 U+2C59 U+2C5A U+2C5B U+2C5C U+2C5D U+2C5E U+2C5F U+2C61 U+026B ",
     "U+1D7D U+027D U+2C68 U+2C6A U+2C6C U+0251 U+0271 U+0250 U+0252 U+2C73 ",
     "U+2C76 U+023F U+0240 U+2C81 U+2C83 U+2C85 U+2C87 U+2C89 U+2C8B U+2C8D ",
     "U+2C8F U+2C91 U+2C93 U+2C95 U+2C97 U+2C99 U+2C9B U+2C9D U+2C9F U+2CA1 ",
     "U+2CA3 U+2CA5 U+2CA7 U+2CA9 U+2CAB U+2CAD U+2CAF U+2CB1 U+2CB3 U+2CB5 ",
     "U+2CB7 U+2CB9 U+2CBB U+2CBD U+2CBF U+2CC1 U+2CC3 U+2CC5 U+2CC7 U+2CC9 ",
     "U+2CCB U+2CCD U+2CCF U+2CD1 U+2CD3 U+2CD5 U+2CD7 U+2CD9 U+2CDB U+2CDD ",
     "U+2CDF U+2CE1 U+2CE3 U+2CEC U+2CEE U+2CF3 U+A641 U+A643 U+A645 U+A647 ",
     "U+A649 U+A64B U+A64D U+A64F U+A651 U+A653 U+A655 U+A657 U+A659 U+A65B ",
     "U+A65D U+A65F U+A661 U+A663 U+A665 U+A667 U+A669 U+A66B U+A66D U+A681 ",
     "U+A683 U+A685 U+A687 U+A689 U+A68B U+A68D U+A68F U+A691 U+A693 U+A695 ",
     "U+A697 U+A699 U+A69B U+A723 U+A725 U+A727 U+A729 U+A72B U+A72D U+A72F ",
     "U+A733 U+A735 U+A737 U+A739 U+A73B U+A73D U+A73F U+A741 U+A743 U+A745 ",
     "U+A747 U+A749 U+A74B U+A74D U+A74F U+A751 U+A753 U+A755 U+A757 U+A759 ",
     "U+A75B U+A75D U+A75F U+A761 U+A763 U+A765 U+A767 U+A769 U+A76B U+A76D ",
     "U+A76F U+A77A U+A77C U+1D79 U+A77F U+A781 U+A783 U+A785 U+A787 U+A78C ",
     "U+0265 U+A791 U+A793 U+A797 U+A799 U+A79B U+A79D U+A79F U+A7A1 U+A7A3 ",
     "U+A7A5 U+A7A7 U+A7A9 U+0266 U+025C U+0261 U+026C U+026A U+029E U+0287 ",
     "U+029D U+AB53 U+A7B5 U+A7B7 U+A7B9 U+A7BB U+A7BD U+A7BF U+A7C1 U+A7C3 ",
     "U+A794 U+0282 U+1D8E U+A7C8 U+A7CA U+0264 U+A7CD U+A7CF U+A7D1 U+A7D3 ",
     "U+A7D5 U+A7D7 U+A7D9 U+A7DB U+019B U+A7F6 U+FF41 U+FF42 U+FF43 U+FF44 ",
     "U+FF45 U+FF46 U+FF47 U+FF48 U+FF49 U+FF4A U+FF4B U+FF4C U+FF4D U+FF4E ",
     "U+FF4F U+FF50 U+FF51 U+FF52 U+FF53 U+FF54 U+FF55 U+FF56 U+FF57 U+FF58 ",
     "U+FF59 U+FF5A U+10428U+10429U+1042AU+1042BU+1042CU+1042DU+1042EU+1042F",
     "U+10430U+10431U+10432U+10433U+10434U+10435U+10436U+10437U+10438U+10439",
     "U+1043AU+1043BU+1043CU+1043DU+1043EU+1043FU+10440U+10441U+10442U+10443",
     "U+10444U+10445U+10446U+10447U+10448U+10449U+1044AU+1044BU+1044CU+1044D",
     "U+1044EU+1044FU+104D8U+104D9U+104DAU+104DBU+104DCU+104DDU+104DEU+104DF",
     "U+104E0U+104E1U+104E2U+104E3U+104E4U+104E5U+104E6U+104E7U+104E8U+104E9",
     "U+104EAU+104EBU+104ECU+104EDU+104EEU+104EFU+104F0U+104F1U+104F2U+104F3",
     "U+104F4U+104F5U+104F6U+104F7U+104F8U+104F9U+104FAU+104FBU+10597U+10598",
     "U+10599U+1059AU+1059BU+1059CU+1059DU+1059EU+1059FU+105A0U+105A1U+105A3",
     "U+105A4U+105A5U+105A6U+105A7U+105A8U+105A9U+105AAU+105ABU+105ACU+105AD",
     "U+105AEU+105AFU+105B0U+105B1U+105B3U+105B4U+105B5U+105B6U+105B7U+105B8",
     "U+105B9U+105BBU+105BCU+10CC0U+10CC1U+10CC2U+10CC3U+10CC4U+10CC5U+10CC6",
     "U+10CC7U+10CC8U+10CC9U+10CCAU+10CCBU+10CCCU+10CCDU+10CCEU+10CCFU+10CD0",
     "U+10CD1U+10CD2U+10CD3U+10CD4U+10CD5U+10CD6U+10CD7U+10CD8U+10CD9U+10CDA",
     "U+10CDBU+10CDCU+10CDDU+10CDEU+10CDFU+10CE0U+10CE1U+10CE2U+10CE3U+10CE4",
     "U+10CE5U+10CE6U+10CE7U+10CE8U+10CE9U+10CEAU+10CEBU+10CECU+10CEDU+10CEE",
     "U+10CEFU+10CF0U+10CF1U+10CF2U+10D70U+10D71U+10D72U+10D73U+10D74U+10D75",
     "U+10D76U+10D77U+10D78U+10D79U+10D7AU+10D7BU+10D7CU+10D7DU+10D7EU+10D7F",
     "U+10D80U+10D81U+10D82U+10D83U+10D84U+10D85U+118C0U+118C1U+118C2U+118C3",
     "U+118C4U+118C5U+118C6U+118C7U+118C8U+118C9U+118CAU+118CBU+118CCU+118CD",
     "U+118CEU+118CFU+118D0U+118D1U+118D2U+118D3U+118D4U+118D5U+118D6U+118D7",
     "U+118D8U+118D9U+118DAU+118DBU+118DCU+118DDU+118DEU+118DFU+16E60U+16E61",
     "U+16E62U+16E63U+16E64U+16E65U+16E66U+16E67U+16E68U+16E69U+16E6AU+16E6B",
     "U+16E6CU+16E6DU+16E6EU+16E6FU+16E70U+16E71U+16E72U+16E73U+16E74U+16E75",
     "U+16E76U+16E77U+16E78U+16E79U+16E7AU+16E7BU+16E7CU+16E7DU+16E7EU+16E7F",
     "U+16EBBU+16EBCU+16EBDU+16EBEU+16EBFU+16EC0U+16EC1U+16EC2U+16EC3U+16EC4",
     "U+16EC5U+16EC6U+16EC7U+16EC8U+16EC9U+16ECAU+16ECBU+16ECCU+16ECDU+16ECE",
     "U+16ECFU+16ED0U+16ED1U+16ED2U+16ED3U+1E922U+1E923U+1E924U+1E925U+1E926",
     "U+1E927U+1E928U+1E929U+1E92AU+1E92BU+1E92CU+1E92DU+1E92EU+1E92FU+1E930",
     "U+1E931U+1E932U+1E933U+1E934U+1E935U+1E936U+1E937U+1E938U+1E939U+1E93A",
     "U+1E93BU+1E93CU+1E93DU+1E93EU+1E93FU+1E940U+1E941U+1E942U+1E943">>

\* The cased letters outside ASCII that are not case-ignorable.
CasedRows ==
    <<
     "U+00AA U+00B5 U+00BA U+00C0 U+00C1 U+00C2 U+00C3 U+00C4 U+00C5 U+00C6 ",
     "U+00C7 U+00C8 U+00C9 U+00CA U+00CB U+00CC U+00CD U+00CE U+00CF U+00D0 ",
     "U+00D1 U+00D2 U+00D3 U+00D4 U+00D5 U+00D6 U+00D8 U+00D9 U+00DA U+00DB ",
     "U+00DC U+00DD U+00DE U+00DF U+00E0 U+00E1 U+00E2 U+00E3 U+00E4 U+00E5 ",
     "U+00E6 U+00E7 U+00E8 U+00E9 U+00EA U+00EB U+00EC U+00ED U+00EE U+00EF ",
     "U+00F0 U+00F1 U+00F2 U+00F3 U+00F4 U+00F5 U+00F6 U+00F8 U+00F9 U+00FA ",
     "U+00FB U+00FC U+00FD U+00FE U+00FF U+0100 U+0101 U+0102 U+0103 U+0104 ",
     "U+0105 U+0106 U+0107 U+0108 U+0109 U+010A U+010B U+010C U+010D U+010E ",
     "U+010F U+0110 U+0111 U+0112 U+0113 U+0114 U+0115 U+0116 U+0117 U+0118 ",
     "U+0119 U+011A U+011B U+011C U+011D U+011E U+011F U+0120 U+0121 U+0122 ",
     "U+0123 U+0124 U+0125 U+0126 U+0127 U+0128 U+0129 U+012A U+012B U+012C ",
     "U+012D U+012E U+012F U+0130 U+0131 U+0132 U+0133 U+0134 U+0135 U+0136 ",
     "U+0137 U+0138 U+0139 U+013A U+013B U+013C U+013D U+013E U+013F U+0140 ",
     "U+0141 U+0142 U+0143 U+0144 U+0145 U+0146 U+0147 U+0148 U+0149 U+014A ",
     "U+014B U+014C U+014D U+014E U+014F U+0150 U+0151 U+0152 U+0153 U+0154 ",
     "U+0155 U+0156 U+0157 U+0158 U+0159 U+015A U+015B U+015C U+015D U+015E ",
     "U+015F U+0160 U+0161 U+0162 U+0163 U+0164 U+0165 U+0166 U+0167 U+0168 ",
     "U+0169 U+016A U+016B U+016C U+016D U+016E U+016F U+0170 U+0171 U+0172 ",
     "U+0173 U+0174 U+0175 U+0176 U+0177 U+0178 U+0179 U+017A U+017B U+017C ",
     "U+017D U+017E U+017F U+0180 U+0181 U+0182 U+0183 U+0184 U+0185 U+0186 ",
     "U+0187 U+0188 U+0189 U+018A U+018B U+018C U+018D U+018E U+018F U+0190 ",
     "U+0191 U+0192 U+0193 U+0194 U+0195 U+0196 U+0197 U+0198 U+0199 U+019A ",
     "U+019B U+019C U+019D U+019E U+019F U+01A0 U+01A1 U+01A2 U+01A3 U+01A4 ",
     "U+01A5 U+01A6 U+01A7 U+01A8 U+01A9 U+01AA U+01AB U+01AC U+01AD U+01AE ",
     "U+01AF U+01B0 U+01B1 U+01B2 U+01B3 U+01B4 U+01B5 U+01B6 U+01B7 U+01B8 ",
     "U+01B9 U+01BA U+01BC U+01BD U+01BE U+01BF U+01C4 U+01C5 U+01C6 U+01C7 ",
     "U+01C8 U+01C9 U+01CA U+01CB U+01CC U+01CD U+01CE U+01CF U+01D0 U+01D1 ",
     "U+01D2 U+01D3 U+01D4 U+01D5 U+01D6 U+01D7 U+01D8 U+01D9 U+01DA U+01DB ",
     "U+01DC U+01DD U+01DE U+01DF U+01E0 U+01E1 U+01E2 U+01E3 U+01E4 U+01E5 ",
     "U+01E6 U+01E7 U+01E8 U+01E9 U+01EA U+01EB U+01EC U+01ED U+01EE U+01EF ",
     "U+01F0 U+01F1 U+01F2 U+01F3 U+01F4 U+01F5 U+01F6 U+01F7 U+01F8 U+01F9 ",
     "U+01FA U+01FB U+01FC U+01FD U+01FE U+01FF U+0200 U+0201 U+0202 U+0203 ",
     "U+0204 U+0205 U+0206 U+0207 U+0208 U+0209 U+020A U+020B U+020C U+020D ",
     "U+020E U+020F U+0210 U+0211 U+0212 U+0213 U+0214 U+0215 U+0216 U+0217 ",
     "U+0218 U+0219 U+021A U+021B U+021C U+021D U+021E U+021F U+0220 U+0221 ",
     "U+0222 U+0223 U+0224 U+0225 U+0226 U+0227 U+0228 U+0229 U+022A U+022B ",
     "U+022C U+022D U+022E U+022F U+0230 U+0231 U+0232 U+0233 U+0234 U+0235 ",
     "U+0236 U+0237 U+0238 U+0239 U+023A U+023B U+023C U+023D U+023E U+023F ",
     "U+0240 U+0241 U+0242 U+0243 U+0244 U+0245 U+0246 U+0247 U+0248 U+0249 ",
     "U+024A U+024B U+024C U+024D U+024E U+024F U+0250 U+0251 U+0252 U+0253 ",
     "U+0254 U+0255 U+0256 U+0257 U+0258 U+0259 U+025A U+025B U+025C U+025D ",
     "U+025E U+025F U+0260 U+0261 U+0262 U+0263 U+0264 U+0265 U+0266 U+0267 ",
     "U+0268 U+0269 U+026A U+026B U+026C U+026D U+026E U+026F U+0270 U+0271 ",
     "U+0272 U+0273 U+0274 U+0275 U+0276 U+0277 U+0278 U+0279 U+027A U+027B ",
     "U+027C U+027D U+027E U+027F U+0280 U+0281 U+0282 U+0283 U+0284 U+0285 ",
     "U+0286 U+0287 U+0288 U+0289 U+028A U+028B U+028C U+028D U+028E U+028F ",
     "U+0290 U+0291 U+0292 U+0293 U+0296 U+0297 U+0298 U+0299 U+029A U+029B ",
     "U+029C U+029D U+029E U+029F U+02A0 U+02A1 U+02A2 U+02A3 U+02A4 U+02A5 ",
     "U+02A6 U+02A7 U+02A8 U+02A9 U+02AA U+02AB U+02AC U+02AD U+02AE U+02AF ",
     "U+0370 U+0371 U+0372 U+0373 U+0376 U+0377 U+037B U+037C U+037D U+037F ",
     "U+0386 U+0388 U+0389 U+038A U+038C U+038E U+038F U+0390 U+0391 U+0392 ",
     "U+0393 U+0394 U+0395 U+0396 U+0397 U+0398 U+0399 U+039A U+039B U+039C ",
     "U+039D U+039E U+039F U+03A0 U+03A1 U+03A3 U+03A4 U+03A5 U+03A6 U+03A7 ",
     "U+03A8 U+03A9 U+03AA U+03AB U+03AC U+03AD U+03AE U+03AF U+03B0 U+03B1 ",
     "U+03B2 U+03B3 U+03B4 U+03B5 U+03B6 U+03B7 U+03B8 U+03B9 U+03BA U+03BB ",
     "U+03BC U+03BD U+03BE U+03BF U+03C0 U+03C1 U+03C2 U+03C3 U+03C4 U+03C5 ",
     "U+03C6 U+03C7 U+03C8 U+03C9 U+03CA U+03CB U+03CC U+03CD U+03CE U+03CF ",
     "U+03D0 U+03D1 U+03D2 U+03D3 U+03D4 U+03D5 U+03D6 U+03D7 U+03D8 U+03D9 ",
     "U+03DA U+03DB U+03DC U+03DD U+03DE U+03DF U+03E0 U+03E1 U+03E2 U+03E3 ",
     "U+03E4 U+03E5 U+03E6 U+03E7 U+03E8 U+03E9 U+03EA U+03EB U+03EC U+03ED ",
     "U+03EE U+03EF U+03F0 U+03F1 U+03F2 U+03F3 U+03F4 U+03F5 U+03F7 U+03F8 ",
     "U+03F9 U+03FA U+03FB U+03FC U+03FD U+03FE U+03FF U+0400 U+0401 U+0402 ",
     "U+0403 U+0404 U+0405 U+0406 U+0407 U+0408 U+0409 U+040A U+040B U+040C ",
     "U+040D U+040E U+040F U+0410 U+0411 U+0412 U+0413 U+0414 U+0415 U+0416 ",
     "U+0417 U+0418 U+0419 U+041A U+041B U+041C U+041D U+041E U+041F U+0420 ",
     "U+0421 U+0422 U+0423 U+0424 U+0425 U+0426 U+0427 U+0428 U+0429 U+042A ",
     "U+042B U+042C U+042D U+042E U+042F U+0430 U+0431 U+0432 U+0433 U+0434 ",
     "U+0435 U+0436 U+0437 U+0438 U+0439 U+043A U+043B U+043C U+043D U+043E ",
     "U+043F U+0440 U+0441 U+0442 U+0443 U+0444 U+0445 U+0446 U+0447 U+0448 ",
     "U+0449 U+044A U+044B U+044C U+044D U+044E U+044F U+0450 U+0451 U+0452 ",
     "U+0453 U+0454 U+0455 U+0456 U+0457 U+0458 U+0459 U+045A U+045B U+045C ",
     "U+045D U+045E U+045F U+0460 U+0461 U+0462 U+0463 U+0464 U+0465 U+0466 ",
     "U+0467 U+0468 U+0469 U+046A U+046B U+046C U+046D U+046E U+046F U+0470 ",
     "U+0471 U+0472 U+0473 U+0474 U+0475 U+0476 U+0477 U+0478 U+0479 U+047A ",
     "U+047B U+047C U+047D U+047E U+047F U+0480 U+0481 U+048A U+048B U+048C ",
     "U+048D U+048E U+048F U+0490 U+0491 U+0492 U+0493 U+0494 U+0495 U+0496 ",
     "U+0497 U+0498 U+0499 U+049A U+049B U+049C U+049D U+049E U+049F U+04A0 ",
     "U+04A1 U+04A2 U+04A3 U+04A4 U+04A5 U+04A6 U+04A7 U+04A8 U+04A9 U+04AA ",
     "U+04AB U+04AC U+04AD U+04AE U+04AF U+04B0 U+04B1 U+04B2 U+04B3 U+04B4 ",
     "U+04B5 U+04B6 U+04B7 U+04B8 U+04B9 U+04BA U+04BB U+04BC U+04BD U+04BE ",
     "U+04BF U+04C0 U+04C1 U+04C2 U+04C3 U+04C4 U+04C5 U+04C6 U+04C7 U+04C8 ",
     "U+04C9 U+04CA U+04CB U+04CC U+04CD U+04CE U+04CF U+04D0 U+04D1 U+04D2 ",
     "U+04D3 U+04D4 U+04D5 U+04D6 U+04D7 U+04D8 U+04D9 U+04DA U+04DB U+04DC ",
     "U+04DD U+04DE U+04DF U+04E0 U+04E1 U+04E2 U+04E3 U+04E4 U+04E5 U+04E6 ",
     "U+04E7 U+04E8 U+04E9 U+04EA U+04EB U+04EC U+04ED U+04EE U+04EF U+04F0 ",
     "U+04F1 U+04F2 U+04F3 U+04F4 U+04F5 U+04F6 U+04F7 U+04F8 U+04F9 U+04FA ",
     "U+04FB U+04FC U+04FD U+04FE U+04FF U+0500 U+0501 U+0502 U+0503 U+0504 ",
     "U+0505 U+0506 U+0507 U+0508 U+0509 U+050A U+050B U+050C U+050D U+050E ",
     "U+050F U+0510 U+0511 U+0512 U+0513 U+0514 U+0515 U+0516 U+0517 U+0518 ",
     "U+0519 U+051A U+051B U+051C U+051D U+051E U+051F U+0520 U+0521 U+0522 ",
     "U+0523 U+0524 U+0525 U+0526 U+0527 U+0528 U+0529 U+052A U+052B U+052C ",
     "U+052D U+052E U+052F U+0531 U+0532 U+0533 U+0534 U+0535 U+0536 U+0537 ",
     "U+0538 U+0539 U+053A U+053B U+053C U+053D U+053E U+053F U+0540 U+0541 ",
     "U+0542 U+0543 U+0544 U+0545 U+0546 U+0547 U+0548 U+0549 U+054A U+054B ",
     "U+054C U+054D U+054E U+054F U+0550 U+0551 U+0552 U+0553 U+0554 U+0555 ",
     "U+0556 U+0560 U+0561 U+0562 U+0563 U+0564 U+0565 U+0566 U+0567 U+0568 ",
     "U+0569 U+056A U+056B U+056C U+056D U+056E U+056F U+0570 U+0571 U+0572 ",
     "U+0573 U+0574 U+0575 U+0576 U+0577 U+0578 U+0579 U+057A U+057B U+057C ",
     "U+057D U+057E U+057F U+0580 U+0581 U+0582 U+0583 U+0584 U+0585 U+0586 ",
     "U+0587 U+0588 U+10A0 U+10A1 U+10A2 U+10A3 U+10A4 U+10A5 U+10A6 U+10A7 ",
     "U+10A8 U+10A9 U+10AA U+10AB U+10AC U+10AD U+10AE U+10AF U+10B0 U+10B1 ",
     "U+10B2 U+10B3 U+10B4 U+10B5 U+10B6 U+10B7 U+10B8 U+10B9 U+10BA U+10BB ",
     "U+10BC U+10BD U+10BE U+10BF U+10C0 U+10C1 U+10C2 U+10C3 U+10C4 U+10C5 ",
     "U+10C7 U+10CD U+10D0 U+10D1 U+10D2 U+10D3 U+10D4 U+10D5 U+10D6 U+10D7 ",
     "U+10D8 U+10D9 U+10DA U+10DB U+10DC U+10DD U+10DE U+10DF U+10E0 U+10E1 ",
     "U+10E2 U+10E3 U+10E4 U+10E5 U+10E6 U+10E7 U+10E8 U+10E9 U+10EA U+10EB ",
     "U+10EC U+10ED U+10EE U+10EF U+10F0 U+10F1 U+10F2 U+10F3 U+10F4 U+10F5 ",
     "U+10F6 U+10F7 U+10F8 U+10F9 U+10FA U+10FD U+10FE U+10FF U+13A0 U+13A1 ",
     "U+13A2 U+13A3 U+13A4 U+13A5 U+13A6 U+13A7 U+13A8 U+13A9 U+13AA U+13AB ",
     "U+13AC U+13AD U+13AE U+13AF U+13B0 U+13B1 U+13B2 U+13B3 U+13B4 U+13B5 ",
     "U+13B6 U+13B7 U+13B8 U+13B9 U+13BA U+13BB U+13BC U+13BD U+13BE U+13BF ",
     "U+13C0 U+13C1 U+13C2 U+13C3 U+13C4 U+13C5 U+13C6 U+13C7 U+13C8 U+13C9 ",
     "U+13CA U+13CB U+13CC U+13CD U+13CE U+13CF U+13D0 U+13D1 U+13D2 U+13D3 ",
     "U+13D4 U+13D5 U+13D6 U+13D7 U+13D8 U+13D9 U+13DA U+13DB U+13DC U+13DD ",
     "U+13DE U+13DF U+13E0 U+13E1 U+13E2 U+13E3 U+13E4 U+13E5 U+13E6 U+13E7 ",
     "U+13E8 U+13E9 U+13EA U+13EB U+13EC U+13ED U+13EE U+13EF U+13F0 U+13F1 ",
     "U+13F2 U+13F3 U+13F4 U+13F5 U+13F8 U+13F9 U+13FA U+13FB U+13FC U+13FD ",
     "U+1C80 U+1C81 U+1C82 U+1C83 U+1C84 U+1C85 U+1C86 U+1C87 U+1C88 U+1C89 ",
     "U+1C8A U+1C90 U+1C91 U+1C92 U+1C93 U+1C94 U+1C95 U+1C96 U+1C97 U+1C98 ",
     "U+1C99 U+1C9A U+1C9B U+1C9C U+1C9D U+1C9E U+1C9F U+1CA0 U+1CA1 U+1CA2 ",
     "U+1CA3 U+1CA4 U+1CA5 U+1CA6 U+1CA7 U+1CA8 U+1CA9 U+1CAA U+1CAB U+1CAC ",
     "U+1CAD U+1CAE U+1CAF U+1CB0 U+1CB1 U+1CB2 U+1CB3 U+1CB4 U+1CB5 U+1CB6 ",
     "U+1CB7 U+1CB8 U+1CB9 U+1CBA U+1CBD U+1CBE U+1CBF U+1D00 U+1D01 U+1D02 ",
     "U+1D03 U+1D04 U+1D05 U+1D06 U+1D07 U+1D08 U+1D09 U+1D0A U+1D0B U+1D0C ",
     "U+1D0D U+1D0E U+1D0F U+1D10 U+1D11 U+1D12 U+1D13 U+1D14 U+1D15 U+1D16 ",
     "U+1D17 U+1D18 U+1D19 U+1D1A U+1D1B U+1D1C U+1D1D U+1D1E U+1D1F U+1D20 ",
     "U+1D21 U+1D22 U+1D23 U+1D24 U+1D25 U+1D26 U+1D27 U+1D28 U+1D29 U+1D2A ",
     "U+1D2B U+1D6B U+1D6C U+1D6D U+1D6E U+1D6F U+1D70 U+1D71 U+1D72 U+1D73 ",
     "U+1D74 U+1D75 U+1D76 U+1D77 U+1D79 U+1D7A U+1D7B U+1D7C U+1D7D U+1D7E ",
     "U+1D7F U+1D80 U+1D81 U+1D82 U+1D83 U+1D84 U+1D85 U+1D86 U+1D87 U+1D88 ",
     "U+1D89 U+1D8A U+1D8B U+1D8C U+1D8D U+1D8E U+1D8F U+1D90 U+1D91 U+1D92 ",
     "U+1D93 U+1D94 U+1D95 U+1D96 U+1D97 U+1D98 U+1D99 U+1D9A U+1E00 U+1E01 ",
     "U+1E02 U+1E03 U+1E04 U+1E05 U+1E06 U+1E07 U+1E08 U+1E09 U+1E0A U+1E0B ",
     "U+1E0C U+1E0D U+1E0E U+1E0F U+1E10 U+1E11 U+1E12 U+1E13 U+1E14 U+1E15 ",
     "U+1E16 U+1E17 U+1E18 U+1E19 U+1E1A U+1E1B U+1E1C U+1E1D U+1E1E U+1E1F ",
     "U+1E20 U+1E21 U+1E22 U+1E23 U+1E24 U+1E25 U+1E26 U+1E27 U+1E28 U+1E29 ",
     "U+1E2A U+1E2B U+1E2C U+1E2D U+1E2E U+1E2F U+1E30 U+1E31 U+1E32 U+1E33 ",
     "U+1E34 U+1E35 U+1E36 U+1E37 U+1E38 U+1E39 U+1E3A U+1E3B U+1E3C U+1E3D ",
     "U+1E3E U+1E3F U+1E40 U+1E41 U+1E42 U+1E43 U+1E44 U+1E45 U+1E46 U+1E47 ",
     "U+1E48 U+1E49 U+1E4A U+1E4B U+1E4C U+1E4D U+1E4E U+1E4F U+1E50 U+1E51 ",
     "U+1E52 U+1E53 U+1E54 U+1E55 U+1E56 U+1E57 U+1E58 U+1E59 U+1E5A U+1E5B ",
     "U+1E5C U+1E5D U+1E5E U+1E5F U+1E60 U+1E61 U+1E62 U+1E63 U+1E64 U+1E65 ",
     "U+1E66 U+1E67 U+1E68 U+1E69 U+1E6A U+1E6B U+1E6C U+1E6D U+1E6E U+1E6F ",
     "U+1E70 U+1E71 U+1E72 U+1E73 U+1E74 U+1E75 U+1E76 U+1E77 U+1E78 U+1E79 ",
     "U+1E7A U+1E7B U+1E7C U+1E7D U+1E7E U+1E7F U+1E80 U+1E81 U+1E82 U+1E83 ",
     "U+1E84 U+1E85 U+1E86 U+1E87 U+1E88 U+1E89 U+1E8A U+1E8B U+1E8C U+1E8D ",
     "U+1E8E U+1E8F U+1E90 U+1E91 U+1E92 U+1E93 U+1E94 U+1E95 U+1E96 U+1E97 ",
     "U+1E98 U+1E99 U+1E9A U+1E9B U+1E9C U+1E9D U+1E9E U+1E9F U+1EA0 U+1EA1 ",
     "U+1EA2 U+1EA3 U+1EA4 U+1EA5 U+1EA6 U+1EA7 U+1EA8 U+1EA9 U+1EAA U+1EAB ",
     "U+1EAC U+1EAD U+1EAE U+1EAF U+1EB0 U+1EB1 U+1EB2 U+1EB3 U+1EB4 U+1EB5 ",
     "U+1EB6 U+1EB7 U+1EB8 U+1EB9 U+1EBA U+1EBB U+1EBC U+1EBD U+1EBE U+1EBF ",
     "U+1EC0 U+1EC1 U+1EC2 U+1EC3 U+1EC4 U+1EC5 U+1EC6 U+1EC7 U+1EC8 U+1EC9 ",
     "U+1ECA U+1ECB U+1ECC U+1ECD U+1ECE U+1ECF U+1ED0 U+1ED1 U+1ED2 U+1ED3 ",
     "U+1ED4 U+1ED5 U+1ED6 U+1ED7 U+1ED8 U+1ED9 U+1EDA U+1EDB U+1EDC U+1EDD ",
     "U+1EDE U+1EDF U+1EE0 U+1EE1 U+1EE2 U+1EE3 U+1EE4 U+1EE5 U+1EE6 U+1EE7 ",
     "U+1EE8 U+1EE9 U+1EEA U+1EEB U+1EEC U+1EED U+1EEE U+1EEF U+1EF0 U+1EF1 ",
     "U+1EF2 U+1EF3 U+1EF4 U+1EF5 U+1EF6 U+1EF7 U+1EF8 U+1EF9 U+1EFA U+1EFB ",
     "U+1EFC U+1EFD U+1EFE U+1EFF U+1F00 U+1F01 U+1F02 U+1F03 U+1F04 U+1F05 ",
     "U+1F06 U+1F07 U+1F08 U+1F09 U+1F0A U+1F0B U+1F0C U+1F0D U+1F0E U+1F0F ",
     "U+1F10 U+1F11 U+1F12 U+1F13 U+1F14 U+1F15 U+1F18 U+1F19 U+1F1A U+1F1B ",
     "U+1F1C U+1F1D U+1F20 U+1F21 U+1F22 U+1F23 U+1F24 U+1F25 U+1F26 U+1F27 ",
     "U+1F28 U+1F29 U+1F2A U+1F2B U+1F2C U+1F2D U+1F2E U+1F2F U+1F30 U+1F31 ",
     "U+1F32 U+1F33 U+1F34 U+1F35 U+1F36 U+1F37 U+1F38 U+1F39 U+1F3A U+1F3B ",
     "U+1F3C U+1F3D U+1F3E U+1F3F U+1F40 U+1F41 U+1F42 U+1F43 U+1F44 U+1F45 ",
     "U+1F48 U+1F49 U+1F4A U+1F4B U+1F4C U+1F4D U+1F50 U+1F51 U+1F52 U+1F53 ",
     "U+1F54 U+1F55 U+1F56 U+1F57 U+1F59 U+1F5B U+1F5D U+1F5F U+1F60 U+1F61 ",
     "U+1F62 U+1F63 U+1F64 U+1F65 U+1F66 U+1F67 U+1F68 U+1F69 U+1F6A U+1F6B ",
     "U+1F6C U+1F6D U+1F6E U+1F6F U+1F70 U+1F71 U+1F72 U+1F73 U+1F74 U+1F75 ",
     "U+1F76 U+1F77 U+1F78 U+1F79 U+1F7A U+1F7B U+1F7C U+1F7D U+1F80 U+1F81 ",
     "U+1F82 U+1F83 U+1F84 U+1F85 U+1F86 U+1F87 U+1F88 U+1F89 U+1F8A U+1F8B ",
     "U+1F8C U+1F8D U+1F8E U+1F8F U+1F90 U+1F91 U+1F92 U+1F93 U+1F94 U+1F95 ",
     "U+1F96 U+1F97 U+1F98 U+1F99 U+1F9A U+1F9B U+1F9C U+1F9D U+1F9E U+1F9F ",
     "U+1FA0 U+1FA1 U+1FA2 U+1FA3 U+1FA4 U+1FA5 U+1FA6 U+1FA7 U+1FA8 U+1FA9 ",
     "U+1FAA U+1FAB U+1FAC U+1FAD U+1FAE U+1FAF U+1FB0 U+1FB1 U+1FB2 U+1FB3 ",
     "U+1FB4 U+1FB6 U+1FB7 U+1FB8 U+1FB9 U+1FBA U+1FBB U+1FBC U+1FBE U+1FC2 ",
     "U+1FC3 U+1FC4 U+1FC6 U+1FC7 U+1FC8 U+1FC9 U+1FCA U+1FCB U+1FCC U+1FD0 ",
     "U+1FD1 U+1FD2 U+1FD3 U+1FD6 U+1FD7 U+1FD8 U+1FD9 U+1FDA U+1FDB U+1FE0 ",
     "U+1FE1 U+1FE2 U+1FE3 U+1FE4 U+1FE5 U+1FE6 U+1FE7 U+1FE8 U+1FE9 U+1FEA ",
     "U+1FEB U+1FEC U+1FF2 U+1FF3 U+1FF4 U+1FF6 U+1FF7 U+1FF8 U+1FF9 U+1FFA ",
     "U+1FFB U+1FFC U+2102 U+2107 U+210A U+210B U+210C U+210D U+210E U+210F ",
     "U+2110 U+2111 U+2112 U+2113 U+2115 U+2119 U+211A U+211B U+211C U+211D ",
     "U+2124 U+2126 U+2128 U+212A U+212B U+212C U+212D U+212F U+2130 U+2131 ",
     "U+2132 U+2133 U+2134 U+2139 U+213C U+213D U+213E U+213F U+2145 U+2146 ",
     "U+2147 U+2148 U+2149 U+214E U+2160 U+2161 U+2162 U+2163 U+2164 U+2165 ",
     "U+2166 U+2167 U+2168 U+2169 U+216A U+216B U+216C U+216D U+216E U+216F ",
     "U+2170 U+2171 U+2172 U+2173 U+2174 U+2175 U+2176 U+2177 U+2178 U+2179 ",
     "U+217A U+217B U+217C U+217D U+217E U+217F U+2183 U+2184 U+24B6 U+24B7 ",
     "U+24B8 U+24B9 U+24BA U+24BB U+24BC U+24BD U+24BE U+24BF U+24C0 U+24C1 ",
     "U+24C2 U+24C3 U+24C4 U+24C5 U+24C6 U+24C7 U+24C8 U+24C9 U+24CA U+24CB ",
     "U+24CC U+24CD U+24CE U+24CF U+24D0 U+24D1 U+24D2 U+24D3 U+24D4 U+24D5 ",
     "U+24D6 U+24D7 U+24D8 U+24D9 U+24DA U+24DB U+24DC U+24DD U+24DE U+24DF ",
     "U+24E0 U+24E1 U+24E2 U+24E3 U+24E4 U+24E5 U+24E6 U+24E7 U+24E8 U+24E9 ",
     "U+2C00 U+2C01 U+2C02 U+2C03 U+2C04 U+2C05 U+2C06 U+2C07 U+2C08 U+2C09 ",
     "U+2C0A U+2C0B U+2C0C U+2C0D U+2C0E U+2C0F U+2C10 U+2C11 U+2C12 U+2C13 ",
     "U+2C14 U+2C15 U+2C16 U+2C17 U+2C18 U+2C19 U+2C1A U+2C1B U+2C1C U+2C1D ",
     "U+2C1E U+2C1F U+2C20 U+2C21 U+2C22 U+2C23 U+2C24 U+2C25 U+2C26 U+2C27 ",
     "U+2C28 U+2C29 U+2C2A U+2C2B U+2C2C U+2C2D U+2C2E U+2C2F U+2C30 U+2C31 ",
     "U+2C32 U+2C33 U+2C34 U+2C35 U+2C36 U+2C37 U+2C38 U+2C39 U+2C3A U+2C3B ",
     "U+2C3C U+2C3D U+2C3E U+2C3F U+2C40 U+2C41 U+2C42 U+2C43 U+2C44 U+2C45 ",
     "U+2C46 U+2C47 U+2C48 U+2C49 U+2C4A U+2C4B U+2C4C U+2C4D U+2C4E U+2C4F ",
     "U+2C50 U+2C51 U+2C52 U+2C53 U+2C54 U+2C55 U+2C56 U+2C57 U+2C58 U+2C59 ",
     "U+2C5A U+2C5B U+2C5C U+2C5D U+2C5E U+2C5F U+2C60 U+2C61 U+2C62 U+2C63 ",
     "U+2C64 U+2C65 U+2C66 U+2C67 U+2C68 U+2C69 U+2C6A U+2C6B U+2C6C U+2C6D ",
     "U+2C6E U+2C6F U+2C70 U+2C71 U+2C72 U+2C73 U+2C74 U+2C75 U+2C76 U+2C77 ",
     "U+2C78 U+2C79 U+2C7A U+2C7B U+2C7E U+2C7F U+2C80 U+2C81 U+2C82 U+2C83 ",
     "U+2C84 U+2C85 U+2C86 U+2C87 U+2C88 U+2C89 U+2C8A U+2C8B U+2C8C U+2C8D ",
     "U+2C8E U+2C8F U+2C90 U+2C91 U+2C92 U+2C93 U+2C94 U+2C95 U+2C96 U+2C97 ",
     "U+2C98 U+2C99 U+2C9A U+2C9B U+2C9C U+2C9D U+2C9E U+2C9F U+2CA0 U+2CA1 ",
     "U+2CA2 U+2CA3 U+2CA4 U+2CA5 U+2CA6 U+2CA7 U+2CA8 U+2CA9 U+2CAA U+2CAB ",
     "U+2CAC U+2CAD U+2CAE U+2CAF U+2CB0 U+2CB1 U+2CB2 U+2CB3 U+2CB4 U+2CB5 ",
     "U+2CB6 U+2CB7 U+2CB8 U+2CB9 U+2CBA U+2CBB U+2CBC U+2CBD U+2CBE U+2CBF ",
     "U+2CC0 U+2CC1 U+2CC2 U+2CC3 U+2CC4 U+2CC5 U+2CC6 U+2CC7 U+2CC8 U+2CC9 ",
     "U+2CCA U+2CCB U+2CCC U+2CCD U+2CCE U+2CCF U+2CD0 U+2CD1 U+2CD2 U+2CD3 ",
     "U+2CD4 U+2CD5 U+2CD6 U+2CD7 U+2CD8 U+2CD9 U+2CDA U+2CDB U+2CDC U+2CDD ",
     "U+2CDE U+2CDF U+2CE0 U+2CE1 U+2CE2 U+2CE3 U+2CE4 U+2CEB U+2CEC U+2CED ",
     "U+2CEE U+2CF2 U+2CF3 U+2D00 U+2D01 U+2D02 U+2D03 U+2D04 U+2D05 U+2D06 ",
     "U+2D07 U+2D08 U+2D09 U+2D0A U+2D0B U+2D0C U+2D0D U+2D0E U+2D0F U+2D10 ",
     "U+2D11 U+2D12 U+2D13 U+2D14 U+2D15 U+2D16 U+2D17 U+2D18 U+2D19 U+2D1A ",
     "U+2D1B U+2D1C U+2D1D U+2D1E U+2D1F U+2D20 U+2D21 U+2D22 U+2D23 U+2D24 ",
     "U+2D25 U+2D27 U+2D2D U+A640 U+A641 U+A642 U+A643 U+A644 U+A645 U+A646 ",
     "U+A647 U+A648 U+A649 U+A64A U+A64B U+A64C U+A64D U+A64E U+A64F U+A650 ",
     "U+A651 U+A652 U+A653 U+A654 U+A655 U+A656 U+A657 U+A658 U+A659 U+A65A ",
     "U+A65B U+A65C U+A65D U+A65E U+A65F U+A660 U+A661 U+A662 U+A663 U+A664 ",
     "U+A665 U+A666 U+A667 U+A668 U+A669 U+A66A U+A66B U+A66C U+A66D U+A680 ",
     "U+A681 U+A682 U+A683 U+A684 U+A685 U+A686 U+A687 U+A688 U+A689 U+A68A ",
     "U+A68B U+A68C U+A68D U+A68E U+A68F U+A690 U+A691 U+A692 U+A693 U+A694 ",
     "U+A695 U+A696 U+A697 U+A698 U+A699 U+A69A U+A69B U+A722 U+A723 U+A724 ",
     "U+A725 U+A726 U+A727 U+A728 U+A729 U+A72A U+A72B U+A72C U+A72D U+A72E ",
     "U+A72F U+A730 U+A731 U+A732 U+A733 U+A734 U+A735 U+A736 U+A737 U+A738 ",
     "U+A739 U+A73A U+A73B U+A73C U+A73D U+A73E U+A73F U+A740 U+A741 U+A742 ",
     "U+A743 U+A744 U+A745 U+A746 U+A747 U+A748 U+A749 U+A74A U+A74B U+A74C ",
     "U+A74D U+A74E U+A74F U+A750 U+A751 U+A752 U+A753 U+A754 U+A755 U+A756 ",
     "U+A757 U+A758 U+A759 U+A75A U+A75B U+A75C U+A75D U+A75E U+A75F U+A760 ",
     "U+A761 U+A762 U+A763 U+A764 U+A765 U+A766 U+A767 U+A768 U+A769 U+A76A ",
     "U+A76B U+A76C U+A76D U+A76E U+A76F U+A771 U+A772 U+A773 U+A774 U+A775 ",
     "U+A776 U+A777 U+A778 U+A779 U+A77A U+A77B U+A77C U+A77D U+A77E U+A77F ",
     "U+A780 U+A781 U+A782 U+A783 U+A784 U+A785 U+A786 U+A787 U+A78B U+A78C ",
     "U+A78D U+A78E U+A790 U+A791 U+A792 U+A793 U+A794 U+A795 U+A796 U+A797 ",
     "U+A798 U+A799 U+A79A U+A79B U+A79C U+A79D U+A79E U+A79F U+A7A0 U+A7A1 ",
     "U+A7A2 U+A7A3 U+A7A4 U+A7A5 U+A7A6 U+A7A7 U+A7A8 U+A7A9 U+A7AA U+A7AB ",
     "U+A7AC U+A7AD U+A7AE U+A7AF U+A7B0 U+A7B1 U+A7B2 U+A7B3 U+A7B4 U+A7B5 ",
     "U+A7B6 U+A7B7 U+A7B8 U+A7B9 U+A7BA U+A7BB U+A7BC U+A7BD U+A7BE U+A7BF ",
     "U+A7C0 U+A7C1 U+A7C2 U+A7C3 U+A7C4 U+A7C5 U+A7C6 U+A7C7 U+A7C8 U+A7C9 ",
     "U+A7CA U+A7CB U+A7CC U+A7CD U+A7CE U+A7CF U+A7D0 U+A7D1 U+A7D2 U+A7D3 ",
     "U+A7D4 U+A7D5 U+A7D6 U+A7D7 U+A7D8 U+A7D9 U+A7DA U+A7DB U+A7DC U+A7F5 ",
     "U+A7F6 U+A7FA U+AB30 U+AB31 U+AB32 U+AB33 U+AB34 U+AB35 U+AB36 U+AB37 ",
     "U+AB38 U+AB39 U+AB3A U+AB3B U+AB3C U+AB3D U+AB3E U+AB3F U+AB40 U+AB41 ",
     "U+AB42 U+AB43 U+AB44 U+AB45 U+AB46 U+AB47 U+AB48 U+AB49 U+AB4A U+AB4B ",
     "U+AB4C U+AB4D U+AB4E U+AB4F U+AB50 U+AB51 U+AB52 U+AB53 U+AB54 U+AB55 ",
     "U+AB56 U+AB57 U+AB58 U+AB59 U+AB5A U+AB60 U+AB61 U+AB62 U+AB63 U+AB64 ",
     "U+AB65 U+AB66 U+AB67 U+AB68 U+AB70 U+AB71 U+AB72 U+AB73 U+AB74 U+AB75 ",
     "U+AB76 U+AB77 U+AB78 U+AB79 U+AB7A U+AB7B U+AB7C U+AB7D U+AB7E U+AB7F ",
     "U+AB80 U+AB81 U+AB82 U+AB83 U+AB84 U+AB85 U+AB86 U+AB87 U+AB88 U+AB89 ",
     "U+AB8A U+AB8B U+AB8C U+AB8D U+AB8E U+AB8F U+AB90 U+AB91 U+AB92 U+AB93 ",
     "U+AB94 U+AB95 U+AB96 U+AB97 U+AB98 U+AB99 U+AB9A U+AB9B U+AB9C U+AB9D ",
     "U+AB9E U+AB9F U+ABA0 U+ABA1 U+ABA2 U+ABA3 U+ABA4 U+ABA5 U+ABA6 U+ABA7 ",
     "U+ABA8 U+ABA9 U+ABAA U+ABAB U+ABAC U+ABAD U+ABAE U+ABAF U+ABB0 U+ABB1 ",
     "U+ABB2 U+ABB3 U+ABB4 U+ABB5 U+ABB6 U+ABB7 U+ABB8 U+ABB9 U+ABBA U+ABBB ",
     "U+ABBC U+ABBD U+ABBE U+ABBF U+FB00 U+FB01 U+FB02 U+FB03 U+FB04 U+FB05 ",
     "U+FB06 U+FB13 U+FB14 U+FB15 U+FB16 U+FB17 U+FF21 U+FF22 U+FF23 U+FF24 ",
     "U+FF25 U+FF26 U+FF27 U+FF28 U+FF29 U+FF2A U+FF2B U+FF2C U+FF2D U+FF2E ",
     "U+FF2F U+FF30 U+FF31 U+FF32 U+FF33 U+FF34 U+FF35 U+FF36 U+FF37 U+FF38 ",
     "U+FF39 U+FF3A U+FF41 U+FF42 U+FF43 U+FF44 U+FF45 U+FF46 U+FF47 U+FF48 ",
     "U+FF49 U+FF4A U+FF4B U+FF4C U+FF4D U+FF4E U+FF4F U+FF50 U+FF51 U+FF52 ",
     "U+FF53 U+FF54 U+FF55 U+FF56 U+FF57 U+FF58 U+FF59 U+FF5A U+10400U+10401",
     "U+10402U+10403U+10404U+10405U+10406U+10407U+10408U+10409U+1040AU+1040B",
     "U+1040CU+1040DU+1040EU+1040FU+10410U+10411U+10412U+10413U+10414U+10415",
     "U+10416U+10417U+10418U+10419U+1041AU+1041BU+1041CU+1041DU+1041EU+1041F",
     "U+10420U+10421U+10422U+10423U+10424U+10425U+10426U+10427U+10428U+10429",
     "U+1042AU+1042BU+1042CU+1042DU+1042EU+1042FU+10430U+10431U+10432U+10433",
     "U+10434U+10435U+10436U+10437U+10438U+10439U+1043AU+1043BU+1043CU+1043D",
     "U+1043EU+1043FU+10440U+10441U+10442U+10443U+10444U+10445U+10446U+10447",
     "U+10448U+10449U+1044AU+1044BU+1044CU+1044DU+1044EU+1044FU+104B0U+104B1",
     "U+104B2U+104B3U+104B4U+104B5U+104B6U+104B7U+104B8U+104B9U+104BAU+104BB",
     "U+104BCU+104BDU+104BEU+104BFU+104C0U+104C1U+104C2U+104C3U+104C4U+104C5",
     "U+104C6U+104C7U+104C8U+104C9U+104CAU+104CBU+104CCU+104CDU+104CEU+104CF",
     "U+104D0U+104D1U+104D2U+104D3U+104D8U+104D9U+104DAU+104DBU+104DCU+104DD",
     "U+104DEU+104DFU+104E0U+104E1U+104E2U+104E3U+104E4U+104E5U+104E6U+104E7",
     "U+104E8U+104E9U+104EAU+104EBU+104ECU+104EDU+104EEU+104EFU+104F0U+104F1",
     "U+104F2U+104F3U+104F4U+104F5U+104F6U+104F7U+104F8U+104F9U+104FAU+104FB",
     "U+10570U+10571U+10572U+10573U+10574U+10575U+10576U+10577U+10578U+10579",
     "U+1057AU+1057CU+1057DU+1057EU+1057FU+10580U+10581U+10582U+10583U+10584",
     "U+10585U+10586U+10587U+10588U+10589U+1058AU+1058CU+1058DU+1058EU+1058F",
     "U+10590U+10591U+10592U+10594U+10595U+10597U+10598U+10599U+1059AU+1059B",
     "U+1059CU+1059DU+1059EU+1059FU+105A0U+105A1U+105A3U+105A4U+105A5U+105A6",
     "U+105A7U+105A8U+105A9U+105AAU+105ABU+105ACU+105ADU+105AEU+105AFU+105B0",
     "U+105B1U+105B3U+105B4U+105B5U+105B6U+105B7U+105B8U+105B9U+105BBU+105BC",
     "U+10C80U+10C81U+10C82U+10C83U+10C84U+10C85U+10C86U+10C87U+10C88U+10C89",
     "U+10C8AU+10C8BU+10C8CU+10C8DU+10C8EU+10C8FU+10C90U+10C91U+10C92U+10C93",
     "U+10C94U+10C95U+10C96U+10C97U+10C98U+10C99U+10C9AU+10C9BU+10C9CU+10C9D",
     "U+10C9EU+10C9FU+10CA0U+10CA1U+10CA2U+10CA3U+10CA4U+10CA5U+10CA6U+10CA7",
     "U+10CA8U+10CA9U+10CAAU+10CABU+10CACU+10CADU+10CAEU+10CAFU+10CB0U+10CB1",
     "U+10CB2U+10CC0U+10CC1U+10CC2U+10CC3U+10CC4U+10CC5U+10CC6U+10CC7U+10CC8",
     "U+10CC9U+10CCAU+10CCBU+10CCCU+10CCDU+10CCEU+10CCFU+10CD0U+10CD1U+10CD2",
     "U+10CD3U+10CD4U+10CD5U+10CD6U+10CD7U+10CD8U+10CD9U+10CDAU+10CDBU+10CDC",
     "U+10CDDU+10CDEU+10CDFU+10CE0U+10CE1U+10CE2U+10CE3U+10CE4U+10CE5U+10CE6",
     "U+10CE7U+10CE8U+10CE9U+10CEAU+10CEBU+10CECU+10CEDU+10CEEU+10CEFU+10CF0",
     "U+10CF1U+10CF2U+10D50U+10D51U+10D52U+10D53U+10D54U+10D55U+10D56U+10D57",
     "U+10D58U+10D59U+10D5AU+10D5BU+10D5CU+10D5DU+10D5EU+10D5FU+10D60U+10D61",
     "U+10D62U+10D63U+10D64U+10D65U+10D70U+10D71U+10D72U+10D73U+10D74U+10D75",
     "U+10D76U+10D77U+10D78U+10D79U+10D7AU+10D7BU+10D7CU+10D7DU+10D7EU+10D7F",
     "U+10D80U+10D81U+10D82U+10D83U+10D84U+10D85U+118A0U+118A1U+118A2U+118A3",
     "U+118A4U+118A5U+118A6U+118A7U+118A8U+118A9U+118AAU+118ABU+118ACU+118AD",
     "U+118AEU+118AFU+118B0U+118B1U+118B2U+118B3U+118B4U+118B5U+118B6U+118B7",
     "U+118B8U+118B9U+118BAU+118BBU+118BCU+118BDU+118BEU+118BFU+118C0U+118C1",
     "U+118C2U+118C3U+118C4U+118C5U+118C6U+118C7U+118C8U+118C9U+118CAU+118CB",
     "U+118CCU+118CDU+118CEU+118CFU+118D0U+118D1U+118D2U+118D3U+118D4U+118D5",
     "U+118D6U+118D7U+118D8U+118D9U+118DAU+118DBU+118DCU+118DDU+118DEU+118DF",
     "U+16E40U+16E41U+16E42U+16E43U+16E44U+16E45U+16E46U+16E47U+16E48U+16E49",
     "U+16E4AU+16E4BU+16E4CU+16E4DU+16E4EU+16E4FU+16E50U+16E51U+16E52U+16E53",
     "U+16E54U+16E55U+16E56U+16E57U+16E58U+16E59U+16E5AU+16E5BU+16E5CU+16E5D",
     "U+16E5EU+16E5FU+16E60U+16E61U+16E62U+16E63U+16E64U+16E65U+16E66U+16E67",
     "U+16E68U+16E69U+16E6AU+16E6BU+16E6CU+16E6DU+16E6EU+16E6FU+16E70U+16E71",
     "U+16E72U+16E73U+16E74U+16E75U+16E76U+16E77U+16E78U+16E79U+16E7AU+16E7B",
     "U+16E7CU+16E7DU+16E7EU+16E7FU+16EA0U+16EA1U+16EA2U+16EA3U+16EA4U+16EA5",
     "U+16EA6U+16EA7U+16EA8U+16EA9U+16EAAU+16EABU+16EACU+16EADU+16EAEU+16EAF",
     "U+16EB0U+16EB1U+16EB2U+16EB3U+16EB4U+16EB5U+16EB6U+16EB7U+16EB8U+16EBB",
     "U+16EBCU+16EBDU+16EBEU+16EBFU+16EC0U+16EC1U+16EC2U+16EC3U+16EC4U+16EC5",
     "U+16EC6U+16EC7U+16EC8U+16EC9U+16ECAU+16ECBU+16ECCU+16ECDU+16ECEU+16ECF",
     "U+16ED0U+16ED1U+16ED2U+16ED3U+1D400U+1D401U+1D402U+1D403U+1D404U+1D405",
     "U+1D406U+1D407U+1D408U+1D409U+1D40AU+1D40BU+1D40CU+1D40DU+1D40EU+1D40F",
     "U+1D410U+1D411U+1D412U+1D413U+1D414U+1D415U+1D416U+1D417U+1D418U+1D419",
     "U+1D41AU+1D41BU+1D41CU+1D41DU+1D41EU+1D41FU+1D420U+1D421U+1D422U+1D423",
     "U+1D424U+1D425U+1D426U+1D427U+1D428U+1D429U+1D42AU+1D42BU+1D42CU+1D42D",
     "U+1D42EU+1D42FU+1D430U+1D431U+1D432U+1D433U+1D434U+1D435U+1D436U+1D437",
     "U+1D438U+1D439U+1D43AU+1D43BU+1D43CU+1D43DU+1D43EU+1D43FU+1D440U+1D441",
     "U+1D442U+1D443U+1D444U+1D445U+1D446U+1D447U+1D448U+1D449U+1D44AU+1D44B",
     "U+1D44CU+1D44DU+1D44EU+1D44FU+1D450U+1D451U+1D452U+1D453U+1D454U+1D456",
     "U+1D457U+1D458U+1D459U+1D45AU+1D45BU+1D45CU+1D45DU+1D45EU+1D45FU+1D460",
     "U+1D461U+1D462U+1D463U+1D464U+1D465U+1D466U+1D467U+1D468U+1D469U+1D46A",
     "U+1D46BU+1D46CU+1D46DU+1D46EU+1D46FU+1D470U+1D471U+1D472U+1D473U+1D474",
     "U+1D475U+1D476U+1D477U+1D478U+1D479U+1D47AU+1D47BU+1D47CU+1D47DU+1D47E",
     "U+1D47FU+1D480U+1D481U+1D482U+1D483U+1D484U+1D485U+1D486U+1D487U+1D488",
     "U+1D489U+1D48AU+1D48BU+1D48CU+1D48DU+1D48EU+1D48FU+1D490U+1D491U+1D492",
     "U+1D493U+1D494U+1D495U+1D496U+1D497U+1D498U+1D499U+1D49AU+1D49BU+1D49C",
     "U+1D49EU+1D49FU+1D4A2U+1D4A5U+1D4A6U+1D4A9U+1D4AAU+1D4ABU+1D4ACU+1D4AE",
     "U+1D4AFU+1D4B0U+1D4B1U+1D4B2U+1D4B3U+1D4B4U+1D4B5U+1D4B6U+1D4B7U+1D4B8",
     "U+1D4B9U+1D4BBU+1D4BDU+1D4BEU+1D4BFU+1D4C0U+1D4C1U+1D4C2U+1D4C3U+1D4C5",
     "U+1D4C6U+1D4C7U+1D4C8U+1D4C9U+1D4CAU+1D4CBU+1D4CCU+1D4CDU+1D4CEU+1D4CF",
     "U+1D4D0U+1D4D1U+1D4D2U+1D4D3U+1D4D4U+1D4D5U+1D4D6U+1D4D7U+1D4D8U+1D4D9",
     "U+1D4DAU+1D4DBU+1D4DCU+1D4DDU+1D4DEU+1D4DFU+1D4E0U+1D4E1U+1D4E2U+1D4E3",
     "U+1D4E4U+1D4E5U+1D4E6U+1D4E7U+1D4E8U+1D4E9U+1D4EAU+1D4EBU+1D4ECU+1D4ED",
     "U+1D4EEU+1D4EFU+1D4F0U+1D4F1U+1D4F2U+1D4F3U+1D4F4U+1D4F5U+1D4F6U+1D4F7",
     "U+1D4F8U+1D4F9U+1D4FAU+1D4FBU+1D4FCU+1D4FDU+1D4FEU+1D4FFU+1D500U+1D501",
     "U+1D502U+1D503U+1D504U+1D505U+1D507U+1D508U+1D509U+1D50AU+1D50DU+1D50E",
     "U+1D50FU+1D510U+1D511U+1D512U+1D513U+1D514U+1D516U+1D517U+1D518U+1D519",
     "U+1D51AU+1D51BU+1D51CU+1D51EU+1D51FU+1D520U+1D521U+1D522U+1D523U+1D524",
     "U+1D525U+1D526U+1D527U+1D528U+1D529U+1D52AU+1D52BU+1D52CU+1D52DU+1D52E",
     "U+1D52FU+1D530U+1D531U+1D532U+1D533U+1D534U+1D535U+1D536U+1D537U+1D538",
     "U+1D539U+1D53BU+1D53CU+1D53DU+1D53EU+1D540U+1D541U+1D542U+1D543U+1D544",
     "U+1D546U+1D54AU+1D54BU+1D54CU+1D54DU+1D54EU+1D54FU+1D550U+1D552U+1D553",
     "U+1D554U+1D555U+1D556U+1D557U+1D558U+1D559U+1D55AU+1D55BU+1D55CU+1D55D",
     "U+1D55EU+1D55FU+1D560U+1D561U+1D562U+1D563U+1D564U+1D565U+1D566U+1D567",
     "U+1D568U+1D569U+1D56AU+1D56BU+1D56CU+1D56DU+1D56EU+1D56FU+1D570U+1D571",
     "U+1D572U+1D573U+1D574U+1D575U+1D576U+1D577U+1D578U+1D579U+1D57AU+1D57B",
     "U+1D57CU+1D57DU+1D57EU+1D57FU+1D580U+1D581U+1D582U+1D583U+1D584U+1D585",
     "U+1D586U+1D587U+1D588U+1D589U+1D58AU+1D58BU+1D58CU+1D58DU+1D58EU+1D58F",
     "U+1D590U+1D591U+1D592U+1D593U+1D594U+1D595U+1D596U+1D597U+1D598U+1D599",
     "U+1D59AU+1D59BU+1D59CU+1D59DU+1D59EU+1D59FU+1D5A0U+1D5A1U+1D5A2U+1D5A3",
     "U+1D5A4U+1D5A5U+1D5A6U+1D5A7U+1D5A8U+1D5A9U+1D5AAU+1D5ABU+1D5ACU+1D5AD",
     "U+1D5AEU+1D5AFU+1D5B0U+1D5B1U+1D5B2U+1D5B3U+1D5B4U+1D5B5U+1D5B6U+1D5B7",
     "U+1D5B8U+1D5B9U+1D5BAU+1D5BBU+1D5BCU+1D5BDU+1D5BEU+1D5BFU+1D5C0U+1D5C1",
     "U+1D5C2U+1D5C3U+1D5C4U+1D5C5U+1D5C6U+1D5C7U+1D5C8U+1D5C9U+1D5CAU+1D5CB",
     "U+1D5CCU+1D5CDU+1D5CEU+1D5CFU+1D5D0U+1D5D1U+1D5D2U+1D5D3U+1D5D4U+1D5D5",
     "U+1D5D6U+1D5D7U+1D5D8U+1D5D9U+1D5DAU+1D5DBU+1D5DCU+1D5DDU+1D5DEU+1D5DF",
     "U+1D5E0U+1D5E1U+1D5E2U+1D5E3U+1D5E4U+1D5E5U+1D5E6U+1D5E7U+1D5E8U+1D5E9",
     "U+1D5EAU+1D5EBU+1D5ECU+1D5EDU+1D5EEU+1D5EFU+1D5F0U+1D5F1U+1D5F2U+1D5F3",
     "U+1D5F4U+1D5F5U+1D5F6U+1D5F7U+1D5F8U+1D5F9U+1D5FAU+1D5FBU+1D5FCU+1D5FD",
     "U+1D5FEU+1D5FFU+1D600U+1D601U+1D602U+1D603U+1D604U+1D605U+1D606U+1D607",
     "U+1D608U+1D609U+1D60AU+1D60BU+1D60CU+1D60DU+1D60EU+1D60FU+1D610U+1D611",
     "U+1D612U+1D613U+1D614U+1D615U+1D616U+1D617U+1D618U+1D619U+1D61AU+1D61B",
     "U+1D61CU+1D61DU+1D61EU+1D61FU+1D620U+1D621U+1D622U+1D623U+1D624U+1D625",
     "U+1D626U+1D627U+1D628U+1D629U+1D62AU+1D62BU+1D62CU+1D62DU+1D62EU+1D62F",
     "U+1D630U+1D631U+1D632U+1D633U+1D634U+1D635U+1D636U+1D637U+1D638U+1D639",
     "U+1D63AU+1D63BU+1D63CU+1D63DU+1D63EU+1D63FU+1D640U+1D641U+1D642U+1D643",
     "U+1D644U+1D645U+1D646U+1D647U+1D648U+1D649U+1D64AU+1D64BU+1D64CU+1D64D",
     "U+1D64EU+1D64FU+1D650U+1D651U+1D652U+1D653U+1D654U+1D655U+1D656U+1D657",
     "U+1D658U+1D659U+1D65AU+1D65BU+1D65CU+1D65DU+1D65EU+1D65FU+1D660U+1D661",
     "U+1D662U+1D663U+1D664U+1D665U+1D666U+1D667U+1D668U+1D669U+1D66AU+1D66B",
     "U+1D66CU+1D66DU+1D66EU+1D66FU+1D670U+1D671U+1D672U+1D673U+1D674U+1D675",
     "U+1D676U+1D677U+1D678U+1D679U+1D67AU+1D67BU+1D67CU+1D67DU+1D67EU+1D67F",
     "U+1D680U+1D681U+1D682U+1D683U+1D684U+1D685U+1D686U+1D687U+1D688U+1D689",
     "U+1D68AU+1D68BU+1D68CU+1D68DU+1D68EU+1D68FU+1D690U+1D691U+1D692U+1D693",
     "U+1D694U+1D695U+1D696U+1D697U+1D698U+1D699U+1D69AU+1D69BU+1D69CU+1D69D",
     "U+1D69EU+1D69FU+1D6A0U+1D6A1U+1D6A2U+1D6A3U+1D6A4U+1D6A5U+1D6A8U+1D6A9",
     "U+1D6AAU+1D6ABU+1D6ACU+1D6ADU+1D6AEU+1D6AFU+1D6B0U+1D6B1U+1D6B2U+1D6B3",
     "U+1D6B4U+1D6B5U+1D6B6U+1D6B7U+1D6B8U+1D6B9U+1D6BAU+1D6BBU+1D6BCU+1D6BD",
     "U+1D6BEU+1D6BFU+1D6C0U+1D6C2U+1D6C3U+1D6C4U+1D6C5U+1D6C6U+1D6C7U+1D6C8",
     "U+1D6C9U+1D6CAU+1D6CBU+1D6CCU+1D6CDU+1D6CEU+1D6CFU+1D6D0U+1D6D1U+1D6D2",
     "U+1D6D3U+1D6D4U+1D6D5U+1D6D6U+1D6D7U+1D6D8U+1D6D9U+1D6DAU+1D6DCU+1D6DD",
     "U+1D6DEU+1D6DFU+1D6E0U+1D6E1U+1D6E2U+1D6E3U+1D6E4U+1D6E5U+1D6E6U+1D6E7",
     "U+1D6E8U+1D6E9U+1D6EAU+1D6EBU+1D6ECU+1D6EDU+1D6EEU+1D6EFU+1D6F0U+1D6F1",
     "U+1D6F2U+1D6F3U+1D6F4U+1D6F5U+1D6F6U+1D6F7U+1D6F8U+1D6F9U+1D6FAU+1D6FC",
     "U+1D6FDU+1D6FEU+1D6FFU+1D700U+1D701U+1D702U+1D703U+1D704U+1D705U+1D706",
     "U+1D707U+1D708U+1D709U+1D70AU+1D70BU+1D70CU+1D70DU+1D70EU+1D70FU+1D710",
     "U+1D711U+1D712U+1D713U+1D714U+1D716U+1D717U+1D718U+1D719U+1D71AU+1D71B",
     "U+1D71CU+1D71DU+1D71EU+1D71FU+1D720U+1D721U+1D722U+1D723U+1D724U+1D725",
     "U+1D726U+1D727U+1D728U+1D729U+1D72AU+1D72BU+1D72CU+1D72DU+1D72EU+1D72F",
     "U+1D730U+1D731U+1D732U+1D733U+1D734U+1D736U+1D737U+1D738U+1D739U+1D73A",
     "U+1D73BU+1D73CU+1D73DU+1D73EU+1D73FU+1D740U+1D741U+1D742U+1D743U+1D744",
     "U+1D745U+1D746U+1D747U+1D748U+1D749U+1D74AU+1D74BU+1D74CU+1D74DU+1D74E",
     "U+1D750U+1D751U+1D752U+1D753U+1D754U+1D755U+1D756U+1D757U+1D758U+1D759",
     "U+1D75AU+1D75BU+1D75CU+1D75DU+1D75EU+1D75FU+1D760U+1D761U+1D762U+1D763",
     "U+1D764U+1D765U+1D766U+1D767U+1D768U+1D769U+1D76AU+1D76BU+1D76CU+1D76D",
     "U+1D76EU+1D770U+1D771U+1D772U+1D773U+1D774U+1D775U+1D776U+1D777U+1D778",
     "U+1D779U+1D77AU+1D77BU+1D77CU+1D77DU+1D77EU+1D77FU+1D780U+1D781U+1D782",
     "U+1D783U+1D784U+1D785U+1D786U+1D787U+1D788U+1D78AU+1D78BU+1D78CU+1D78D",
     "U+1D78EU+1D78FU+1D790U+1D791U+1D792U+1D793U+1D794U+1D795U+1D796U+1D797",
     "U+1D798U+1D799U+1D79AU+1D79BU+1D79CU+1D79DU+1D79EU+1D79FU+1D7A0U+1D7A1",
     "U+1D7A2U+1D7A3U+1D7A4U+1D7A5U+1D7A6U+1D7A7U+1D7A8U+1D7AAU+1D7ABU+1D7AC",
     "U+1D7ADU+1D7AEU+1D7AFU+1D7B0U+1D7B1U+1D7B2U+1D7B3U+1D7B4U+1D7B5U+1D7B6",
     "U+1D7B7U+1D7B8U+1D7B9U+1D7BAU+1D7BBU+1D7BCU+1D7BDU+1D7BEU+1D7BFU+1D7C0",
     "U+1D7C1U+1D7C2U+1D7C4U+1D7C5U+1D7C6U+1D7C7U+1D7C8U+1D7C9U+1D7CAU+1D7CB",
     "U+1DF00U+1DF01U+1DF02U+1DF03U+1DF04U+1DF05U+1DF06U+1DF07U+1DF08U+1DF09",
     "U+1DF0BU+1DF0CU+1DF0DU+1DF0EU+1DF0FU+1DF10U+1DF11U+1DF12U+1DF13U+1DF14",
     "U+1DF15U+1DF16U+1DF17U+1DF18U+1DF19U+1DF1AU+1DF1BU+1DF1CU+1DF1DU+1DF1E",
     "U+1DF25U+1DF26U+1DF27U+1DF28U+1DF29U+1DF2AU+1E900U+1E901U+1E902U+1E903",
     "U+1E904U+1E905U+1E906U+1E907U+1E908U+1E909U+1E90AU+1E90BU+1E90CU+1E90D",
     "U+1E90EU+1E90FU+1E910U+1E911U+1E912U+1E913U+1E914U+1E915U+1E916U+1E917",
     "U+1E918U+1E919U+1E91AU+1E91BU+1E91CU+1E91DU+1E91EU+1E91FU+1E920U+1E921",
     "U+1E922U+1E923U+1E924U+1E925U+1E926U+1E927U+1E928U+1E929U+1E92AU+1E92B",
     "U+1E92CU+1E92DU+1E92EU+1E92FU+1E930U+1E931U+1E932U+1E933U+1E934U+1E935",
     "U+1E936U+1E937U+1E938U+1E939U+1E93AU+1E93BU+1E93CU+1E93DU+1E93EU+1E93F",
     "U+1E940U+1E941U+1E942U+1E943U+1F130U+1F131U+1F132U+1F133U+1F134U+1F135",
     "U+1F136U+1F137U+1F138U+1F139U+1F13AU+1F13BU+1F13CU+1F13DU+1F13EU+1F13F",
     "U+1F140U+1F141U+1F142U+1F143U+1F144U+1F145U+1F146U+1F147U+1F148U+1F149",
     "U+1F150U+1F151U+1F152U+1F153U+1F154U+1F155U+1F156U+1F157U+1F158U+1F159",
     "U+1F15AU+1F15BU+1F15CU+1F15DU+1F15EU+1F15FU+1F160U+1F161U+1F162U+1F163",
     "U+1F164U+1F165U+1F166U+1F167U+1F168U+1F169U+1F170U+1F171U+1F172U+1F173",
     "U+1F174U+1F175U+1F176U+1F177U+1F178U+1F179U+1F17AU+1F17BU+1F17CU+1F17D",
     "U+1F17EU+1F17FU+1F180U+1F181U+1F182U+1F183U+1F184U+1F185U+1F186U+1F187",
     "U+1F188U+1F189">>

\* The case-ignorable characters outside ASCII (marks, modifier letters,
\* format characters, ...), and the grave accent, which is written by its
\* code point too.
IgnorableRows ==
    <<
     "U+0060 U+00A8 U+00AD U+00AF U+00B4 U+00B7 U+00B8 U+02B0 U+02B1 U+02B2 ",
     "U+02B3 U+02B4 U+02B5 U+02B6 U+02B7 U+02B8 U+02B9 U+02BA U+02BB U+02BC ",
     "U+02BD U+02BE U+02BF U+02C0 U+02C1 U+02C2 U+02C3 U+02C4 U+02C5 U+02C6 ",
     "U+02C7 U+02C8 U+02C9 U+02CA U+02CB U+02CC U+02CD U+02CE U+02CF U+02D0 ",
     "U+02D1 U+02D2 U+02D3 U+02D4 U+02D5 U+02D6 U+02D7 U+02D8 U+02D9 U+02DA ",
     "U+02DB U+02DC U+02DD U+02DE U+02DF U+02E0 U+02E1 U+02E2 U+02E3 U+02E4 ",
     "U+02E5 U+02E6 U+02E7 U+02E8 U+02E9 U+02EA U+02EB U+02EC U+02ED U+02EE ",
     "U+02EF U+02F0 U+02F1 U+02F2 U+02F3 U+02F4 U+02F5 U+02F6 U+02F7 U+02F8 ",
     "U+02F9 U+02FA U+02FB U+02FC U+02FD U+02FE U+02FF U+0300 U+0301 U+0302 ",
     "U+0303 U+0304 U+0305 U+0306 U+0307 U+0308 U+0309 U+030A U+030B U+030C ",
     "U+030D U+030E U+030F U+0310 U+0311 U+0312 U+0313 U+0314 U+0315 U+0316 ",
     "U+0317 U+0318 U+0319 U+031A U+031B U+031C U+031D U+031E U+031F U+0320 ",
     "U+0321 U+0322 U+0323 U+0324 U+0325 U+0326 U+0327 U+0328 U+0329 U+032A ",
     "U+032B U+032C U+032D U+032E U+032F U+0330 U+0331 U+0332 U+0333 U+0334 ",
     "U+0335 U+0336 U+0337 U+0338 U+0339 U+033A U+033B U+033C U+033D U+033E ",
     "U+033F U+0340 U+0341 U+0342 U+0343 U+0344 U+0345 U+0346 U+0347 U+0348 ",
     "U+0349 U+034A U+034B U+034C U+034D U+034E U+034F U+0350 U+0351 U+0352 ",
     "U+0353 U+0354 U+0355 U+0356 U+0357 U+0358 U+0359 U+035A U+035B U+035C ",
     "U+035D U+035E U+035F U+0360 U+0361 U+0362 U+0363 U+0364 U+0365 U+0366 ",
     "U+0367 U+0368 U+0369 U+036A U+036B U+036C U+036D U+036E U+036F U+0374 ",
     "U+0375 U+037A U+0384 U+0385 U+0387 U+0483 U+0484 U+0485 U+0486 U+0487 ",
     "U+0488 U+0489 U+0559 U+055F U+0591 U+0592 U+0593 U+0594 U+0595 U+0596 ",
     "U+0597 U+0598 U+0599 U+059A U+059B U+059C U+059D U+059E U+059F U+05A0 ",
     "U+05A1 U+05A2 U+05A3 U+05A4 U+05A5 U+05A6 U+05A7 U+05A8 U+05A9 U+05AA ",
     "U+05AB U+05AC U+05AD U+05AE U+05AF U+05B0 U+05B1 U+05B2 U+05B3 U+05B4 ",
     "U+05B5 U+05B6 U+05B7 U+05B8 U+05B9 U+05BA U+05BB U+05BC U+05BD U+05BF ",
     "U+05C1 U+05C2 U+05C4 U+05C5 U+05C7 U+05F4 U+0600 U+0601 U+0602 U+0603 ",
     "U+0604 U+0605 U+0610 U+0611 U+0612 U+0613 U+0614 U+0615 U+0616 U+0617 ",
     "U+0618 U+0619 U+061A U+061C U+0640 U+064B U+064C U+064D U+064E U+064F ",
     "U+0650 U+0651 U+0652 U+0653 U+0654 U+0655 U+0656 U+0657 U+0658 U+0659 ",
     "U+065A U+065B U+065C U+065D U+065E U+065F U+0670 U+06D6 U+06D7 U+06D8 ",
     "U+06D9 U+06DA U+06DB U+06DC U+06DD U+06DF U+06E0 U+06E1 U+06E2 U+06E3 ",
     "U+06E4 U+06E5 U+06E6 U+06E7 U+06E8 U+06EA U+06EB U+06EC U+06ED U+070F ",
     "U+0711 U+0730 U+0731 U+0732 U+0733 U+0734 U+0735 U+0736 U+0737 U+0738 ",
     "U+0739 U+073A U+073B U+073C U+073D U+073E U+073F U+0740 U+0741 U+0742 ",
     "U+0743 U+0744 U+0745 U+0746 U+0747 U+0748 U+0749 U+074A U+07A6 U+07A7 ",
     "U+07A8 U+07A9 U+07AA U+07AB U+07AC U+07AD U+07AE U+07AF U+07B0 U+07EB ",
     "U+07EC U+07ED U+07EE U+07EF U+07F0 U+07F1 U+07F2 U+07F3 U+07F4 U+07F5 ",
     "U+07FA U+07FD U+0816 U+0817 U+0818 U+0819 U+081A U+081B U+081C U+081D ",
     "U+081E U+081F U+0820 U+0821 U+0822 U+0823 U+0824 U+0825 U+0826 U+0827 ",
     "U+0828 U+0829 U+082A U+082B U+082C U+082D U+0859 U+085A U+085B U+0888 ",
     "U+0890 U+0891 U+0897 U+0898 U+0899 U+089A U+089B U+089C U+089D U+089E ",
     "U+089F U+08C9 U+08CA U+08CB U+08CC U+08CD U+08CE U+08CF U+08D0 U+08D1 ",
     "U+08D2 U+08D3 U+08D4 U+08D5 U+08D6 U+08D7 U+08D8 U+08D9 U+08DA U+08DB ",
     "U+08DC U+08DD U+08DE U+08DF U+08E0 U+08E1 U+08E2 U+08E3 U+08E4 U+08E5 ",
     "U+08E6 U+08E7 U+08E8 U+08E9 U+08EA U+08EB U+08EC U+08ED U+08EE U+08EF ",
     "U+08F0 U+08F1 U+08F2 U+08F3 U+08F4 U+08F5 U+08F6 U+08F7 U+08F8 U+08F9 ",
     "U+08FA U+08FB U+08FC U+08FD U+08FE U+08FF U+0900 U+0901 U+0902 U+093A ",
     "U+093C U+0941 U+0942 U+0943 U+0944 U+0945 U+0946 U+0947 U+0948 U+094D ",
     "U+0951 U+0952 U+0953 U+0954 U+0955 U+0956 U+0957 U+0962 U+0963 U+0971 ",
     "U+0981 U+09BC U+09C1 U+09C2 U+09C3 U+09C4 U+09CD U+09E2 U+09E3 U+09FE ",
     "U+0A01 U+0A02 U+0A3C U+0A41 U+0A42 U+0A47 U+0A48 U+0A4B U+0A4C U+0A4D ",
     "U+0A51 U+0A70 U+0A71 U+0A75 U+0A81 U+0A82 U+0ABC U+0AC1 U+0AC2 U+0AC3 ",
     "U+0AC4 U+0AC5 U+0AC7 U+0AC8 U+0ACD U+0AE2 U+0AE3 U+0AFA U+0AFB U+0AFC ",
     "U+0AFD U+0AFE U+0AFF U+0B01 U+0B3C U+0B3F U+0B41 U+0B42 U+0B43 U+0B44 ",
     "U+0B4D U+0B55 U+0B56 U+0B62 U+0B63 U+0B82 U+0BC0 U+0BCD U+0C00 U+0C04 ",
     "U+0C3C U+0C3E U+0C3F U+0C40 U+0C46 U+0C47 U+0C48 U+0C4A U+0C4B U+0C4C ",
     "U+0C4D U+0C55 U+0C56 U+0C62 U+0C63 U+0C81 U+0CBC U+0CBF U+0CC6 U+0CCC ",
     "U+0CCD U+0CE2 U+0CE3 U+0D00 U+0D01 U+0D3B U+0D3C U+0D41 U+0D42 U+0D43 ",
     "U+0D44 U+0D4D U+0D62 U+0D63 U+0D81 U+0DCA U+0DD2 U+0DD3 U+0DD4 U+0DD6 ",
     "U+0E31 U+0E34 U+0E35 U+0E36 U+0E37 U+0E38 U+0E39 U+0E3A U+0E46 U+0E47 ",
     "U+0E48 U+0E49 U+0E4A U+0E4B U+0E4C U+0E4D U+0E4E U+0EB1 U+0EB4 U+0EB5 ",
     "U+0EB6 U+0EB7 U+0EB8 U+0EB9 U+0EBA U+0EBB U+0EBC U+0EC6 U+0EC8 U+0EC9 ",
     "U+0ECA U+0ECB U+0ECC U+0ECD U+0ECE U+0F18 U+0F19 U+0F35 U+0F37 U+0F39 ",
     "U+0F71 U+0F72 U+0F73 U+0F74 U+0F75 U+0F76 U+0F77 U+0F78 U+0F79 U+0F7A ",
     "U+0F7B U+0F7C U+0F7D U+0F7E U+0F80 U+0F81 U+0F82 U+0F83 U+0F84 U+0F86 ",
     "U+0F87 U+0F8D U+0F8E U+0F8F U+0F90 U+0F91 U+0F92 U+0F93 U+0F94 U+0F95 ",
     "U+0F96 U+0F97 U+0F99 U+0F9A U+0F9B U+0F9C U+0F9D U+0F9E U+0F9F U+0FA0 ",
     "U+0FA1 U+0FA2 U+0FA3 U+0FA4 U+0FA5 U+0FA6 U+0FA7 U+0FA8 U+0FA9 U+0FAA ",
     "U+0FAB U+0FAC U+0FAD U+0FAE U+0FAF U+0FB0 U+0FB1 U+0FB2 U+0FB3 U+0FB4 ",
     "U+0FB5 U+0FB6 U+0FB7 U+0FB8 U+0FB9 U+0FBA U+0FBB U+0FBC U+0FC6 U+102D ",
     "U+102E U+102F U+1030 U+1032 U+1033 U+1034 U+1035 U+1036 U+1037 U+1039 ",
     "U+103A U+103D U+103E U+1058 U+1059 U+105E U+105F U+1060 U+1071 U+1072 ",
     "U+1073 U+1074 U+1082 U+1085 U+1086 U+108D U+109D U+10FC U+135D U+135E ",
     "U+135F U+1712 U+1713 U+1714 U+1732 U+1733 U+1752 U+1753 U+1772 U+1773 ",
     "U+17B4 U+17B5 U+17B7 U+17B8 U+17B9 U+17BA U+17BB U+17BC U+17BD U+17C6 ",
     "U+17C9 U+17CA U+17CB U+17CC U+17CD U+17CE U+17CF U+17D0 U+17D1 U+17D2 ",
     "U+17D3 U+17D7 U+17DD U+180B U+180C U+180D U+180E U+180F U+1843 U+1885 ",
     "U+1886 U+18A9 U+1920 U+1921 U+1922 U+1927 U+1928 U+1932 U+1939 U+193A ",
     "U+193B U+1A17 U+1A18 U+1A1B U+1A56 U+1A58 U+1A59 U+1A5A U+1A5B U+1A5C ",
     "U+1A5D U+1A5E U+1A60 U+1A62 U+1A65 U+1A66 U+1A67 U+1A68 U+1A69 U+1A6A ",
     "U+1A6B U+1A6C U+1A73 U+1A74 U+1A75 U+1A76 U+1A77 U+1A78 U+1A79 U+1A7A ",
     "U+1A7B U+1A7C U+1A7F U+1AA7 U+1AB0 U+1AB1 U+1AB2 U+1AB3 U+1AB4 U+1AB5 ",
     "U+1AB6 U+1AB7 U+1AB8 U+1AB9 U+1ABA U+1ABB U+1ABC U+1ABD U+1ABE U+1ABF ",
     "U+1AC0 U+1AC1 U+1AC2 U+1AC3 U+1AC4 U+1AC5 U+1AC6 U+1AC7 U+1AC8 U+1AC9 ",
     "U+1ACA U+1ACB U+1ACC U+1ACD U+1ACE U+1ACF U+1AD0 U+1AD1 U+1AD2 U+1AD3 ",
     "U+1AD4 U+1AD5 U+1AD6 U+1AD7 U+1AD8 U+1AD9 U+1ADA U+1ADB U+1ADC U+1ADD ",
     "U+1AE0 U+1AE1 U+1AE2 U+1AE3 U+1AE4 U+1AE5 U+1AE6 U+1AE7 U+1AE8 U+1AE9 ",
     "U+1AEA U+1AEB U+1B00 U+1B01 U+1B02 U+1B03 U+1B34 U+1B36 U+1B37 U+1B38 ",
     "U+1B39 U+1B3A U+1B3C U+1B42 U+1B6B U+1B6C U+1B6D U+1B6E U+1B6F U+1B70 ",
     "U+1B71 U+1B72 U+1B73 U+1B80 U+1B81 U+1BA2 U+1BA3 U+1BA4 U+1BA5 U+1BA8 ",
     "U+1BA9 U+1BAB U+1BAC U+1BAD U+1BE6 U+1BE8 U+1BE9 U+1BED U+1BEF U+1BF0 ",
     "U+1BF1 U+1C2C U+1C2D U+1C2E U+1C2F U+1C30 U+1C31 U+1C32 U+1C33 U+1C36 ",
     "U+1C37 U+1C78 U+1C79 U+1C7A U+1C7B U+1C7C U+1C7D U+1CD0 U+1CD1 U+1CD2 ",
     "U+1CD4 U+1CD5 U+1CD6 U+1CD7 U+1CD8 U+1CD9 U+1CDA U+1CDB U+1CDC U+1CDD ",
     "U+1CDE U+1CDF U+1CE0 U+1CE2 U+1CE3 U+1CE4 U+1CE5 U+1CE6 U+1CE7 U+1CE8 ",
     "U+1CED U+1CF4 U+1CF8 U+1CF9 U+1D2C U+1D2D U+1D2E U+1D2F U+1D30 U+1D31 ",
     "U+1D32 U+1D33 U+1D34 U+1D35 U+1D36 U+1D37 U+1D38 U+1D39 U+1D3A U+1D3B ",
     "U+1D3C U+1D3D U+1D3E U+1D3F U+1D40 U+1D41 U+1D42 U+1D43 U+1D44 U+1D45 ",
     "U+1D46 U+1D47 U+1D48 U+1D49 U+1D4A U+1D4B U+1D4C U+1D4D U+1D4E U+1D4F ",
     "U+1D50 U+1D51 U+1D52 U+1D53 U+1D54 U+1D55 U+1D56 U+1D57 U+1D58 U+1D59 ",
     "U+1D5A U+1D5B U+1D5C U+1D5D U+1D5E U+1D5F U+1D60 U+1D61 U+1D62 U+1D63 ",
     "U+1D64 U+1D65 U+1D66 U+1D67 U+1D68 U+1D69 U+1D6A U+1D78 U+1D9B U+1D9C ",
     "U+1D9D U+1D9E U+1D9F U+1DA0 U+1DA1 U+1DA2 U+1DA3 U+1DA4 U+1DA5 U+1DA6 ",
     "U+1DA7 U+1DA8 U+1DA9 U+1DAA U+1DAB U+1DAC U+1DAD U+1DAE U+1DAF U+1DB0 ",
     "U+1DB1 U+1DB2 U+1DB3 U+1DB4 U+1DB5 U+1DB6 U+1DB7 U+1DB8 U+1DB9 U+1DBA ",
     "U+1DBB U+1DBC U+1DBD U+1DBE U+1DBF U+1DC0 U+1DC1 U+1DC2 U+1DC3 U+1DC4 ",
     "U+1DC5 U+1DC6 U+1DC7 U+1DC8 U+1DC9 U+1DCA U+1DCB U+1DCC U+1DCD U+1DCE ",
     "U+1DCF U+1DD0 U+1DD1 U+1DD2 U+1DD3 U+1DD4 U+1DD5 U+1DD6 U+1DD7 U+1DD8 ",
     "U+1DD9 U+1DDA U+1DDB U+1DDC U+1DDD U+1DDE U+1DDF U+1DE0 U+1DE1 U+1DE2 ",
     "U+1DE3 U+1DE4 U+1DE5 U+1DE6 U+1DE7 U+1DE8 U+1DE9 U+1DEA U+1DEB U+1DEC ",
     "U+1DED U+1DEE U+1DEF U+1DF0 U+1DF1 U+1DF2 U+1DF3 U+1DF4 U+1DF5 U+1DF6 ",
     "U+1DF7 U+1DF8 U+1DF9 U+1DFA U+1DFB U+1DFC U+1DFD U+1DFE U+1DFF U+1FBD ",
     "U+1FBF U+1FC0 U+1FC1 U+1FCD U+1FCE U+1FCF U+1FDD U+1FDE U+1FDF U+1FED ",
     "U+1FEE U+1FEF U+1FFD U+1FFE U+200B U+200C U+200D U+200E U+200F U+2018 ",
     "U+2019 U+2024 U+2027 U+202A U+202B U+202C U+202D U+202E U+2060 U+2061 ",
     "U+2062 U+2063 U+2064 U+2066 U+2067 U+2068 U+2069 U+206A U+206B U+206C ",
     "U+206D U+206E U+206F U+2071 U+207F U+2090 U+2091 U+2092 U+2093 U+2094 ",
     "U+2095 U+2096 U+2097 U+2098 U+2099 U+209A U+209B U+209C U+20D0 U+20D1 ",
     "U+20D2 U+20D3 U+20D4 U+20D5 U+20D6 U+20D7 U+20D8 U+20D9 U+20DA U+20DB ",
     "U+20DC U+20DD U+20DE U+20DF U+20E0 U+20E1 U+20E2 U+20E3 U+20E4 U+20E5 ",
     "U+20E6 U+20E7 U+20E8 U+20E9 U+20EA U+20EB U+20EC U+20ED U+20EE U+20EF ",
     "U+20F0 U+2C7C U+2C7D U+2CEF U+2CF0 U+2CF1 U+2D6F U+2D7F U+2DE0 U+2DE1 ",
     "U+2DE2 U+2DE3 U+2DE4 U+2DE5 U+2DE6 U+2DE7 U+2DE8 U+2DE9 U+2DEA U+2DEB ",
     "U+2DEC U+2DED U+2DEE U+2DEF U+2DF0 U+2DF1 U+2DF2 U+2DF3 U+2DF4 U+2DF5 ",
     "U+2DF6 U+2DF7 U+2DF8 U+2DF9 U+2DFA U+2DFB U+2DFC U+2DFD U+2DFE U+2DFF ",
     "U+2E2F U+3005 U+302A U+302B U+302C U+302D U+3031 U+3032 U+3033 U+3034 ",
     "U+3035 U+303B U+3099 U+309A U+309B U+309C U+309D U+309E U+30FC U+30FD ",
     "U+30FE U+A015 U+A4F8 U+A4F9 U+A4FA U+A4FB U+A4FC U+A4FD U+A60C U+A66F ",
     "U+A670 U+A671 U+A672 U+A674 U+A675 U+A676 U+A677 U+A678 U+A679 U+A67A ",
     "U+A67B U+A67C U+A67D U+A67F U+A69C U+A69D U+A69E U+A69F U+A6F0 U+A6F1 ",
     "U+A700 U+A701 U+A702 U+A703 U+A704 U+A705 U+A706 U+A707 U+A708 U+A709 ",
     "U+A70A U+A70B U+A70C U+A70D U+A70E U+A70F U+A710 U+A711 U+A712 U+A713 ",
     "U+A714 U+A715 U+A716 U+A717 U+A718 U+A719 U+A71A U+A71B U+A71C U+A71D ",
     "U+A71E U+A71F U+A720 U+A721 U+A770 U+A788 U+A789 U+A78A U+A7F1 U+A7F2 ",
     "U+A7F3 U+A7F4 U+A7F8 U+A7F9 U+A802 U+A806 U+A80B U+A825 U+A826 U+A82C ",
     "U+A8C4 U+A8C5 U+A8E0 U+A8E1 U+A8E2 U+A8E3 U+A8E4 U+A8E5 U+A8E6 U+A8E7 ",
     "U+A8E8 U+A8E9 U+A8EA U+A8EB U+A8EC U+A8ED U+A8EE U+A8EF U+A8F0 U+A8F1 ",
     "U+A8FF U+A926 U+A927 U+A928 U+A929 U+A92A U+A92B U+A92C U+A92D U+A947 ",
     "U+A948 U+A949 U+A94A U+A94B U+A94C U+A94D U+A94E U+A94F U+A950 U+A951 ",
     "U+A980 U+A981 U+A982 U+A9B3 U+A9B6 U+A9B7 U+A9B8 U+A9B9 U+A9BC U+A9BD ",
     "U+A9CF U+A9E5 U+A9E6 U+AA29 U+AA2A U+AA2B U+AA2C U+AA2D U+AA2E U+AA31 ",
     "U+AA32 U+AA35 U+AA36 U+AA43 U+AA4C U+AA70 U+AA7C U+AAB0 U+AAB2 U+AAB3 ",
     "U+AAB4 U+AAB7 U+AAB8 U+AABE U+AABF U+AAC1 U+AADD U+AAEC U+AAED U+AAF3 ",
     "U+AAF4 U+AAF6 U+AB5B U+AB5C U+AB5D U+AB5E U+AB5F U+AB69 U+AB6A U+AB6B ",
     "U+ABE5 U+ABE8 U+ABED U+FB1E U+FBB2 U+FBB3 U+FBB4 U+FBB5 U+FBB6 U+FBB7 ",
     "U+FBB8 U+FBB9 U+FBBA U+FBBB U+FBBC U+FBBD U+FBBE U+FBBF U+FBC0 U+FBC1 ",
     "U+FBC2 U+FE00 U+FE01 U+FE02 U+FE03 U+FE04 U+FE05 U+FE06 U+FE07 U+FE08 ",
     "U+FE09 U+FE0A U+FE0B U+FE0C U+FE0D U+FE0E U+FE0F U+FE13 U+FE20 U+FE21 ",
     "U+FE22 U+FE23 U+FE24 U+FE25 U+FE26 U+FE27 U+FE28 U+FE29 U+FE2A U+FE2B ",
     "U+FE2C U+FE2D U+FE2E U+FE2F U+FE52 U+FE55 U+FEFF U+FF07 U+FF0E U+FF1A ",
     "U+FF3E U+FF40 U+FF70 U+FF9E U+FF9F U+FFE3 U+FFF9 U+FFFA U+FFFB U+101FD",
     "U+102E0U+10376U+10377U+10378U+10379U+1037AU+10780U+10781U+10782U+10783",
     "U+10784U+10785U+10787U+10788U+10789U+1078AU+1078BU+1078CU+1078DU+1078E",
     "U+1078FU+10790U+10791U+10792U+10793U+10794U+10795U+10796U+10797U+10798",
     "U+10799U+1079AU+1079BU+1079CU+1079DU+1079EU+1079FU+107A0U+107A1U+107A2",
     "U+107A3U+107A4U+107A5U+107A6U+107A7U+107A8U+107A9U+107AAU+107ABU+107AC",
     "U+107ADU+107AEU+107AFU+107B0U+107B2U+107B3U+107B4U+107B5U+107B6U+107B7",
     "U+107B8U+107B9U+107BAU+10A01U+10A02U+10A03U+10A05U+10A06U+10A0CU+10A0D",
     "U+10A0EU+10A0FU+10A38U+10A39U+10A3AU+10A3FU+10AE5U+10AE6U+10D24U+10D25",
     "U+10D26U+10D27U+10D4EU+10D69U+10D6AU+10D6BU+10D6CU+10D6DU+10D6FU+10EAB",
     "U+10EACU+10EC5U+10EFAU+10EFBU+10EFCU+10EFDU+10EFEU+10EFFU+10F46U+10F47",
     "U+10F48U+10F49U+10F4AU+10F4BU+10F4CU+10F4DU+10F4EU+10F4FU+10F50U+10F82",
     "U+10F83U+10F84U+10F85U+11001U+11038U+11039U+1103AU+1103BU+1103CU+1103D",
     "U+1103EU+1103FU+11040U+11041U+11042U+11043U+11044U+11045U+11046U+11070",
     "U+11073U+11074U+1107FU+11080U+11081U+110B3U+110B4U+110B5U+110B6U+110B9",
     "U+110BAU+110BDU+110C2U+110CDU+11100U+11101U+11102U+11127U+11128U+11129",
     "U+1112AU+1112BU+1112DU+1112EU+1112FU+11130U+11131U+11132U+11133U+11134",
     "U+11173U+11180U+11181U+111B6U+111B7U+111B8U+111B9U+111BAU+111BBU+111BC",
     "U+111BDU+111BEU+111C9U+111CAU+111CBU+111CCU+111CFU+1122FU+11230U+11231",
     "U+11234U+11236U+11237U+1123EU+11241U+112DFU+112E3U+112E4U+112E5U+112E6",
     "U+112E7U+112E8U+112E9U+112EAU+11300U+11301U+1133BU+1133CU+11340U+11366",
     "U+11367U+11368U+11369U+1136AU+1136BU+1136CU+11370U+11371U+11372U+11373",
     "U+11374U+113BBU+113BCU+113BDU+113BEU+113BFU+113C0U+113CEU+113D0U+113D2",
     "U+113E1U+113E2U+11438U+11439U+1143AU+1143BU+1143CU+1143DU+1143EU+1143F",
     "U+11442U+11443U+11444U+11446U+1145EU+114B3U+114B4U+114B5U+114B6U+114B7",
     "U+114B8U+114BAU+114BFU+114C0U+114C2U+114C3U+115B2U+115B3U+115B4U+115B5",
     "U+115BCU+115BDU+115BFU+115C0U+115DCU+115DDU+11633U+11634U+11635U+11636",
     "U+11637U+11638U+11639U+1163AU+1163DU+1163FU+11640U+116ABU+116ADU+116B0",
     "U+116B1U+116B2U+116B3U+116B4U+116B5U+116B7U+1171DU+1171FU+11722U+11723",
     "U+11724U+11725U+11727U+11728U+11729U+1172AU+1172BU+1182FU+11830U+11831",
     "U+11832U+11833U+11834U+11835U+11836U+11837U+11839U+1183AU+1193BU+1193C",
     "U+1193EU+11943U+119D4U+119D5U+119D6U+119D7U+119DAU+119DBU+119E0U+11A01",
     "U+11A02U+11A03U+11A04U+11A05U+11A06U+11A07U+11A08U+11A09U+11A0AU+11A33",
     "U+11A34U+11A35U+11A36U+11A37U+11A38U+11A3BU+11A3CU+11A3DU+11A3EU+11A47",
     "U+11A51U+11A52U+11A53U+11A54U+11A55U+11A56U+11A59U+11A5AU+11A5BU+11A8A",
     "U+11A8BU+11A8CU+11A8DU+11A8EU+11A8FU+11A90U+11A91U+11A92U+11A93U+11A94",
     "U+11A95U+11A96U+11A98U+11A99U+11B60U+11B62U+11B63U+11B64U+11B66U+11C30",
     "U+11C31U+11C32U+11C33U+11C34U+11C35U+11C36U+11C38U+11C39U+11C3AU+11C3B",
     "U+11C3CU+11C3DU+11C3FU+11C92U+11C93U+11C94U+11C95U+11C96U+11C97U+11C98",
     "U+11C99U+11C9AU+11C9BU+11C9CU+11C9DU+11C9EU+11C9FU+11CA0U+11CA1U+11CA2",
     "U+11CA3U+11CA4U+11CA5U+11CA6U+11CA7U+11CAAU+11CABU+11CACU+11CADU+11CAE",
     "U+11CAFU+11CB0U+11CB2U+11CB3U+11CB5U+11CB6U+11D31U+11D32U+11D33U+11D34",
     "U+11D35U+11D36U+11D3AU+11D3CU+11D3DU+11D3FU+11D40U+11D41U+11D42U+11D43",
     "U+11D44U+11D45U+11D47U+11D90U+11D91U+11D95U+11D97U+11DD9U+11EF3U+11EF4",
     "U+11F00U+11F01U+11F36U+11F37U+11F38U+11F39U+11F3AU+11F40U+11F42U+11F5A",
     "U+13430U+13431U+13432U+13433U+13434U+13435U+13436U+13437U+13438U+13439",
     "U+1343AU+1343BU+1343CU+1343DU+1343EU+1343FU+13440U+13447U+13448U+13449",
     "U+1344AU+1344BU+1344CU+1344DU+1344EU+1344FU+13450U+13451U+13452U+13453",
     "U+13454U+13455U+1611EU+1611FU+16120U+16121U+16122U+16123U+16124U+16125",
     "U+16126U+16127U+16128U+16129U+1612DU+1612EU+1612FU+16AF0U+16AF1U+16AF2",
     "U+16AF3U+16AF4U+16B30U+16B31U+16B32U+16B33U+16B34U+16B35U+16B36U+16B40",
     "U+16B41U+16B42U+16B43U+16D40U+16D41U+16D42U+16D6BU+16D6CU+16F4FU+16F8F",
     "U+16F90U+16F91U+16F92U+16F93U+16F94U+16F95U+16F96U+16F97U+16F98U+16F99",
     "U+16F9AU+16F9BU+16F9CU+16F9DU+16F9EU+16F9FU+16FE0U+16FE1U+16FE3U+16FE4",
     "U+16FF2U+16FF3U+1AFF0U+1AFF1U+1AFF2U+1AFF3U+1AFF5U+1AFF6U+1AFF7U+1AFF8",
     "U+1AFF9U+1AFFAU+1AFFBU+1AFFDU+1AFFEU+1BC9DU+1BC9EU+1BCA0U+1BCA1U+1BCA2",
     "U+1BCA3U+1CF00U+1CF01U+1CF02U+1CF03U+1CF04U+1CF05U+1CF06U+1CF07U+1CF08",
     "U+1CF09U+1CF0AU+1CF0BU+1CF0CU+1CF0DU+1CF0EU+1CF0FU+1CF10U+1CF11U+1CF12",
     "U+1CF13U+1CF14U+1CF15U+1CF16U+1CF17U+1CF18U+1CF19U+1CF1AU+1CF1BU+1CF1C",
     "U+1CF1DU+1CF1EU+1CF1FU+1CF20U+1CF21U+1CF22U+1CF23U+1CF24U+1CF25U+1CF26",
     "U+1CF27U+1CF28U+1CF29U+1CF2AU+1CF2BU+1CF2CU+1CF2DU+1CF30U+1CF31U+1CF32",
     "U+1CF33U+1CF34U+1CF35U+1CF36U+1CF37U+1CF38U+1CF39U+1CF3AU+1CF3BU+1CF3C",
     "U+1CF3DU+1CF3EU+1CF3FU+1CF40U+1CF41U+1CF42U+1CF43U+1CF44U+1CF45U+1CF46",
     "U+1D167U+1D168U+1D169U+1D173U+1D174U+1D175U+1D176U+1D177U+1D178U+1D179",
     "U+1D17AU+1D17BU+1D17CU+1D17DU+1D17EU+1D17FU+1D180U+1D181U+1D182U+1D185",
     "U+1D186U+1D187U+1D188U+1D189U+1D18AU+1D18BU+1D1AAU+1D1ABU+1D1ACU+1D1AD",
     "U+1D242U+1D243U+1D244U+1DA00U+1DA01U+1DA02U+1DA03U+1DA04U+1DA05U+1DA06",
     "U+1DA07U+1DA08U+1DA09U+1DA0AU+1DA0BU+1DA0CU+1DA0DU+1DA0EU+1DA0FU+1DA10",
     "U+1DA11U+1DA12U+1DA13U+1DA14U+1DA15U+1DA16U+1DA17U+1DA18U+1DA19U+1DA1A",
     "U+1DA1BU+1DA1CU+1DA1DU+1DA1EU+1DA1FU+1DA20U+1DA21U+1DA22U+1DA23U+1DA24",
     "U+1DA25U+1DA26U+1DA27U+1DA28U+1DA29U+1DA2AU+1DA2BU+1DA2CU+1DA2DU+1DA2E",
     "U+1DA2FU+1DA30U+1DA31U+1DA32U+1DA33U+1DA34U+1DA35U+1DA36U+1DA3BU+1DA3C",
     "U+1DA3DU+1DA3EU+1DA3FU+1DA40U+1DA41U+1DA42U+1DA43U+1DA44U+1DA45U+1DA46",
     "U+1DA47U+1DA48U+1DA49U+1DA4AU+1DA4BU+1DA4CU+1DA4DU+1DA4EU+1DA4FU+1DA50",
     "U+1DA51U+1DA52U+1DA53U+1DA54U+1DA55U+1DA56U+1DA57U+1DA58U+1DA59U+1DA5A",
     "U+1DA5BU+1DA5CU+1DA5DU+1DA5EU+1DA5FU+1DA60U+1DA61U+1DA62U+1DA63U+1DA64",
     "U+1DA65U+1DA66U+1DA67U+1DA68U+1DA69U+1DA6AU+1DA6BU+1DA6CU+1DA75U+1DA84",
     "U+1DA9BU+1DA9CU+1DA9DU+1DA9EU+1DA9FU+1DAA1U+1DAA2U+1DAA3U+1DAA4U+1DAA5",
     "U+1DAA6U+1DAA7U+1DAA8U+1DAA9U+1DAAAU+1DAABU+1DAACU+1DAADU+1DAAEU+1DAAF",
     "U+1E000U+1E001U+1E002U+1E003U+1E004U+1E005U+1E006U+1E008U+1E009U+1E00A",
     "U+1E00BU+1E00CU+1E00DU+1E00EU+1E00FU+1E010U+1E011U+1E012U+1E013U+1E014",
     "U+1E015U+1E016U+1E017U+1E018U+1E01BU+1E01CU+1E01DU+1E01EU+1E01FU+1E020",
     "U+1E021U+1E023U+1E024U+1E026U+1E027U+1E028U+1E029U+1E02AU+1E030U+1E031",
     "U+1E032U+1E033U+1E034U+1E035U+1E036U+1E037U+1E038U+1E039U+1E03AU+1E03B",
     "U+1E03CU+1E03DU+1E03EU+1E03FU+1E040U+1E041U+1E042U+1E043U+1E044U+1E045",
     "U+1E046U+1E047U+1E048U+1E049U+1E04AU+1E04BU+1E04CU+1E04DU+1E04EU+1E04F",
     "U+1E050U+1E051U+1E052U+1E053U+1E054U+1E055U+1E056U+1E057U+1E058U+1E059",
     "U+1E05AU+1E05BU+1E05CU+1E05DU+1E05EU+1E05FU+1E060U+1E061U+1E062U+1E063",
     "U+1E064U+1E065U+1E066U+1E067U+1E068U+1E069U+1E06AU+1E06BU+1E06CU+1E06D",
     "U+1E08FU+1E130U+1E131U+1E132U+1E133U+1E134U+1E135U+1E136U+1E137U+1E138",
     "U+1E139U+1E13AU+1E13BU+1E13CU+1E13DU+1E2AEU+1E2ECU+1E2EDU+1E2EEU+1E2EF",
     "U+1E4EBU+1E4ECU+1E4EDU+1E4EEU+1E4EFU+1E5EEU+1E5EFU+1E6E3U+1E6E6U+1E6EE",
     "U+1E6EFU+1E6F5U+1E6FFU+1E8D0U+1E8D1U+1E8D2U+1E8D3U+1E8D4U+1E8D5U+1E8D6",
     "U+1E944U+1E945U+1E946U+1E947U+1E948U+1E949U+1E94AU+1E94BU+1F3FBU+1F3FC",
     "U+1F3FDU+1F3FEU+1F3FFU+E0001U+E0020U+E0021U+E0022U+E0023U+E0024U+E0025",
     "U+E0026U+E0027U+E0028U+E0029U+E002AU+E002BU+E002CU+E002DU+E002EU+E002F",
     "U+E0030U+E0031U+E0032U+E0033U+E0034U+E0035U+E0036U+E0037U+E0038U+E0039",
     "U+E003AU+E003BU+E003CU+E003DU+E003EU+E003FU+E0040U+E0041U+E0042U+E0043",
     "U+E0044U+E0045U+E0046U+E0047U+E0048U+E0049U+E004AU+E004BU+E004CU+E004D",
     "U+E004EU+E004FU+E0050U+E0051U+E0052U+E0053U+E0054U+E0055U+E0056U+E0057",
     "U+E0058U+E0059U+E005AU+E005BU+E005CU+E005DU+E005EU+E005FU+E0060U+E0061",
     "U+E0062U+E0063U+E0064U+E0065U+E0066U+E0067U+E0068U+E0069U+E006AU+E006B",
     "U+E006CU+E006DU+E006EU+E006FU+E0070U+E0071U+E0072U+E0073U+E0074U+E0075",
     "U+E0076U+E0077U+E0078U+E0079U+E007AU+E007BU+E007CU+E007DU+E007EU+E007F",
     "U+E0100U+E0101U+E0102U+E0103U+E0104U+E0105U+E0106U+E0107U+E0108U+E0109",
     "U+E010AU+E010BU+E010CU+E010DU+E010EU+E010FU+E0110U+E0111U+E0112U+E0113",
     "U+E0114U+E0115U+E0116U+E0117U+E0118U+E0119U+E011AU+E011BU+E011CU+E011D",
     "U+E011EU+E011FU+E0120U+E0121U+E0122U+E0123U+E0124U+E0125U+E0126U+E0127",
     "U+E0128U+E0129U+E012AU+E012BU+E012CU+E012DU+E012EU+E012FU+E0130U+E0131",
     "U+E0132U+E0133U+E0134U+E0135U+E0136U+E0137U+E0138U+E0139U+E013AU+E013B",
     "U+E013CU+E013DU+E013EU+E013FU+E0140U+E0141U+E0142U+E0143U+E0144U+E0145",
     "U+E0146U+E0147U+E0148U+E0149U+E014AU+E014BU+E014CU+E014DU+E014EU+E014F",
     "U+E0150U+E0151U+E0152U+E0153U+E0154U+E0155U+E0156U+E0157U+E0158U+E0159",
     "U+E015AU+E015BU+E015CU+E015DU+E015EU+E015FU+E0160U+E0161U+E0162U+E0163",
     "U+E0164U+E0165U+E0166U+E0167U+E0168U+E0169U+E016AU+E016BU+E016CU+E016D",
     "U+E016EU+E016FU+E0170U+E0171U+E0172U+E0173U+E0174U+E0175U+E0176U+E0177",
     "U+E0178U+E0179U+E017AU+E017BU+E017CU+E017DU+E017EU+E017FU+E0180U+E0181",
     "U+E0182U+E0183U+E0184U+E0185U+E0186U+E0187U+E0188U+E0189U+E018AU+E018B",
     "U+E018CU+E018DU+E018EU+E018FU+E0190U+E0191U+E0192U+E0193U+E0194U+E0195",
     "U+E0196U+E0197U+E0198U+E0199U+E019AU+E019BU+E019CU+E019DU+E019EU+E019F",
     "U+E01A0U+E01A1U+E01A2U+E01A3U+E01A4U+E01A5U+E01A6U+E01A7U+E01A8U+E01A9",
     "U+E01AAU+E01ABU+E01ACU+E01ADU+E01AEU+E01AFU+E01B0U+E01B1U+E01B2U+E01B3",
     "U+E01B4U+E01B5U+E01B6U+E01B7U+E01B8U+E01B9U+E01BAU+E01BBU+E01BCU+E01BD",
     "U+E01BEU+E01BFU+E01C0U+E01C1U+E01C2U+E01C3U+E01C4U+E01C5U+E01C6U+E01C7",
     "U+E01C8U+E01C9U+E01CAU+E01CBU+E01CCU+E01CDU+E01CEU+E01CFU+E01D0U+E01D1",
     "U+E01D2U+E01D3U+E01D4U+E01D5U+E01D6U+E01D7U+E01D8U+E01D9U+E01DAU+E01DB",
     "U+E01DCU+E01DDU+E01DEU+E01DFU+E01E0U+E01E1U+E01E2U+E01E3U+E01E4U+E01E5",
     "U+E01E6U+E01E7U+E01E8U+E01E9U+E01EAU+E01EBU+E01ECU+E01EDU+E01EEU+E01EF">>

\* the number of characters of one entry of the tables, and the number of
\* entries of a full row
EntryWidth == 7
RowEntries == 10

\* The letters of ASCII, capital and small at the same place, and the
\* case-ignorable characters of ASCII (apostrophe, full stop, colon,
\* circumflex accent).
AsciiUpper == "ABCDEFGHIJKLMNOPQRSTUVWXYZ"
AsciiLower == "abcdefghijklmnopqrstuvwxyz"
AsciiIgnorable == "'.:^"

\* the places of character c in a string of ASCII characters
PlacesIn(str, c) == {n \in 1..Len(str) : SubSeq(str, n, n) = c}

\* the number of entries of a table, and its k-th entry
EntryCount(rows) ==
    RowEntries * (Len(rows) - 1) + Len(rows[Len(rows)]) \div EntryWidth

EntryAt(rows, k) ==
    SubSeq(rows[(k - 1) \div RowEntries + 1],
           EntryWidth * ((k - 1) % RowEntries) + 1,
           EntryWidth * ((k - 1) % RowEntries) + EntryWidth)

\* a code point as the tables write it: filled with a space to EntryWidth
Padded(c) == IF Len(c) < EntryWidth THEN c \o " " ELSE c

\* the places of character c in a table
EntriesOf(rows, c) ==
    {k \in 1..EntryCount(rows) : EntryAt(rows, k) = Padded(c)}

\* an entry without the space that fills it
Unpadded(e) ==
    IF SubSeq(e, Len(e), Len(e)) = " " THEN SubSeq(e, 1, Len(e) - 1) ELSE e

\* the lower-case mapping of one character, whatever its place: the
\* characters it becomes (one, or two for U+0130).  The two characters
\* outside ASCII that become an ASCII letter (U+0130, U+212A KELVIN SIGN)
\* are not in the tables.
LowerChar(c) ==
    IF Len(c) = 1
    THEN IF PlacesIn(AsciiUpper, c) # {}
         THEN LET n == CHOOSE n \in PlacesIn(AsciiUpper, c) : TRUE
              IN  <<SubSeq(AsciiLower, n, n)>>
         ELSE <<c>>
    ELSE IF c = "U+0130" THEN <<"i", "U+0307">>
    ELSE IF c = "U+212A" THEN <<"k">>
    ELSE IF c = "U+03A3" THEN <<"U+03C3">>
    ELSE IF EntriesOf(LowerFromRows, c) # {}
         THEN LET k == CHOOSE k \in EntriesOf(LowerFromRows, c) : TRUE
              IN  <<Unpadded(EntryAt(LowerToRows, k))>>
         ELSE <<c>>

\* a cased letter that is not case-ignorable
IsCased(c) ==
    IF Len(c) = 1
    THEN PlacesIn(AsciiUpper, c) # {} \/ PlacesIn(AsciiLower, c) # {}
    ELSE EntriesOf(CasedRows, c) # {}

IsCaseIgnorable(c) ==
    IF Len(c) = 1
    THEN PlacesIn(AsciiIgnorable, c) # {}
    ELSE EntriesOf(IgnorableRows, c) # {}

\* Is the capital sigma at s[i] the last letter of a word?  Before it,
\* across case-ignorable characters, stands a cased letter, and after it,
\* across case-ignorable characters, stands none.
FinalSigma(s, i) ==
    /\ \E j \in 1..(i - 1) :
          /\ IsCased(s[j])
          /\ \A n \in (j + 1)..(i - 1) : IsCaseIgnorable(s[n])
    /\ ~\E k \in (i + 1)..Len(s) :
          /\ IsCased(s[k])
          /\ \A n \in (i + 1)..(k - 1) : IsCaseIgnorable(s[n])

RECURSIVE LowerFrom(_, _)
LowerFrom(s, i) ==
    IF i > Len(s) THEN <<>>
    ELSE (IF s[i] = "U+03A3" /\ FinalSigma(s, i) THEN <<"U+03C2">>
          ELSE LowerChar(s[i]))
         \o LowerFrom(s, i + 1)

\* String.prototype.toLowerCase
ToLowerCase(s) == LowerFrom(s, 1)

\* String.prototype.includes
Includes(s, sub) ==
    \E i \in 0..(Len(s) - Len(sub)) : SubSeq(s, i + 1, i + Len(sub)) = sub

\* a thrown TypeError
Threw == [ok |-> FALSE]

\* Number.NaN
JNaN == <<"nan", <<>>>>

RECURSIVE ToStringJS(_)
RECURSIVE JoinItems(_, _)

\* ToString, as template literals, property keys, new Error and + apply it:
\* [ok |-> TRUE, s |-> the string], or Threw.  An object from JSON is
\* converted by the toString it inherits; one with an own toString (a JSON
\* value, so no function) has no method that gives a primitive, and the
\* conversion throws.
ToStringJS(x) ==
    CASE TagOf(x) = "undef"  -> [ok |-> TRUE, s |-> <<"u","n","d","e","f","i","n","e","d">>]
      [] TagOf(x) = "null"   -> [ok |-> TRUE, s |-> <<"n","u","l","l">>]
      [] TagOf(x) = "bool"   -> [ok |-> TRUE,
                                 s |-> IF ValOf(x) THEN <<"t","r","u","e">>
                                       ELSE <<"f","a","l","s","e">>]
      [] TagOf(x) = "num"    -> [ok |-> TRUE, s |-> NatToDigits(ValOf(x))]
      [] TagOf(x) = "nan"    -> [ok |-> TRUE, s |-> <<"N","a","N">>]
      [] TagOf(x) = "str"    -> [ok |-> TRUE, s |-> ValOf(x)]
      [] TagOf(x) = "arr"    -> JoinItems(ValOf(x), 1)
      [] TagOf(x) = "obj"    -> IF HasOwn(ValOf(x), sToString) THEN Threw
                                ELSE [ok |-> TRUE, s |-> Chars("[object Object]")]
      [] TagOf(x) = "native" -> [ok |-> TRUE, s |-> ValOf(x)]

\* Array.prototype.join(","): null and undefined items give the empty string
JoinItems(xs, i) ==
    IF i > Len(xs) THEN [ok |-> TRUE, s |-> <<>>]
    ELSE LET item == IF Nullish(xs[i]) THEN [ok |-> TRUE, s |-> <<>>]
                     ELSE ToStringJS(xs[i])
             rest == JoinItems(xs, i + 1)
         IN IF ~item.ok \/ ~rest.ok THEN Threw
            ELSE [ok |-> TRUE,
                  s |-> (IF i > 1 THEN <<",">> ELSE <<>>) \o item.s \o rest.s]

\* x + 1: [ok |-> TRUE, v |-> the sum or the concatenation], or Threw
AddOne(x) ==
    CASE TagOf(x) = "num"   -> [ok |-> TRUE, v |-> JNum(ValOf(x) + 1)]
      [] TagOf(x) = "bool"  -> [ok |-> TRUE, v |-> JNum(IF ValOf(x) THEN 2 ELSE 1)]
      [] TagOf(x) = "null"  -> [ok |-> TRUE, v |-> JNum(1)]
      [] TagOf(x) \in {"undef", "nan"} -> [ok |-> TRUE, v |-> JNaN]
      [] OTHER -> LET r == ToStringJS(x) IN
                  IF r.ok THEN [ok |-> TRUE, v |-> JStr(r.s \o <<"1">>)] ELSE Threw

\* The number of UTF-16 code units of a string: two for a character above
\* U+FFFF (written by a code point of five or six digits), one for any other.
RECURSIVE CodeUnits(_)
CodeUnits(s) ==
    IF s = <<>> THEN 0
    ELSE (IF Len(Head(s)) > 6 THEN 2 ELSE 1) + CodeUnits(Tail(s))

\* x.length
LengthOf(x) ==
    CASE TagOf(x) = "arr" -> JNum(Len(ValOf(x)))
      [] TagOf(x) = "str" -> JNum(CodeUnits(ValOf(x)))
      [] OTHER -> Get(x, <<"l","e","n","g","t","h">>)

(***************************************************************************)
(* ToNumber of a string, as far as x > 0 needs it: is the number the       *)
(* string converts to greater than zero?                                   *)
(***************************************************************************)
\* white space and line terminators that StringToNumber strips
StrWhiteSpace ==
    {" ", "\t", "\n", "\r", "\f",
     "U+0009", "U+000A", "U+000B", "U+000C", "U+000D", "U+00A0", "U+1680",
     "U+2000", "U+2001", "U+2002", "U+2003", "U+2004", "U+2005", "U+2006",
     "U+2007", "U+2008", "U+2009", "U+200A", "U+2028", "U+2029", "U+202F",
     "U+205F", "U+3000", "U+FEFF"}

RECURSIVE StripSpace(_)
StripSpace(s) ==
    IF s # <<>> /\ s[1] \in StrWhiteSpace THEN StripSpace(Tail(s))
    ELSE IF s # <<>> /\ s[Len(s)] \in StrWhiteSpace
    THEN StripSpace(SubSeq(s, 1, Len(s) - 1))
    ELSE s

\* the index after the digits that start at s[i]
RECURSIVE SkipDigits(_, _)
SkipDigits(s, i) ==
    IF i <= Len(s) /\ IsDigit(s[i]) THEN SkipDigits(s, i + 1) ELSE i

RECURSIVE StripZeros(_)
StripZeros(s) == IF s # <<>> /\ s[1] = "0" THEN StripZeros(Tail(s)) ELSE s

\* the digits of 2^-1075 = 0.24703...e-323, half of the least positive
\* number: a decimal at or below it rounds to zero
HalfLeastDigits ==
    <<
     "2","4","7","0","3","2","8","2","2","9","2","0","6","2","3","2","7",
     "2","0","8","8","2","8","4","3","9","6","4","3","4","1","1","0","6",
     "8","6","1","8","2","5","2","9","9","0","1","3","0","7","1","6","2",
     "3","8","2","2","1","2","7","9","2","8","4","1","2","5","0","3","3",
     "7","7","5","3","6","3","5","1","0","4","3","7","5","9","3","2","6",
     "4","9","9","1","8","1","8","0","8","1","7","9","9","6","1","8","9",
     "8","9","8","2","8","2","3","4","7","7","2","2","8","5","8","8","6",
     "5","4","6","3","3","2","8","3","5","5","1","7","7","9","6","9","8",
     "9","8","1","9","9","3","8","7","3","9","8","0","0","5","3","9","0",
     "9","3","9","0","6","3","1","5","0","3","5","6","5","9","5","1","5",
     "5","7","0","2","2","6","3","9","2","2","9","0","8","5","8","3","9",
     "2","4","4","9","1","0","5","1","8","4","4","3","5","9","3","1","8",
     "0","2","8","4","9","9","3","6","5","3","6","1","5","2","5","0","0",
     "3","1","9","3","7","0","4","5","7","6","7","8","2","4","9","2","1",
     "9","3","6","5","6","2","3","6","6","9","8","6","3","6","5","8","4",
     "8","0","7","5","7","0","0","1","5","8","5","7","6","9","2","6","9",
     "9","0","3","7","0","6","3","1","1","9","2","8","2","7","9","5","5",
     "8","5","5","1","3","3","2","9","2","7","8","3","4","3","3","8","4",
     "0","9","3","5","1","9","7","8","0","1","5","5","3","1","2","4","6",
     "5","9","7","2","6","3","5","7","9","5","7","4","6","2","2","7","6",
     "6","4","6","5","2","7","2","8","2","7","2","2","0","0","5","6","3",
     "7","4","0","0","6","4","8","5","4","9","9","9","7","7","0","9","6",
     "5","9","9","4","7","0","4","5","4","0","2","0","8","2","8","1","6",
     "6","2","2","6","2","3","7","8","5","7","3","9","3","4","5","0","7",
     "3","6","3","3","9","0","0","7","9","6","7","7","6","1","9","3","0",
     "5","7","7","5","0","6","7","4","0","1","7","6","3","2","4","6","7",
     "3","6","0","0","9","6","8","9","5","1","3","4","0","5","3","5","5",
     "3","7","4","5","8","5","1","6","6","6","1","1","3","4","2","2","3",
     "7","6","6","6","7","8","6","0","4","1","6","2","1","5","9","6","8",
     "0","4","6","1","9","1","4","4","6","7","2","9","1","8","4","0","3",
     "0","0","5","3","0","0","5","7","5","3","0","8","4","9","0","4","8",
     "7","6","5","3","9","1","7","1","1","3","8","6","5","9","1","6","4",
     "6","2","3","9","5","2","4","9","1","2","6","2","3","6","5","3","8",
     "8","1","8","7","9","6","3","6","2","3","9","3","7","3","2","8","0",
     "4","2","3","8","9","1","0","1","8","6","7","2","3","4","8","4","9",
     "7","6","6","8","2","3","5","0","8","9","8","6","3","3","8","8","5",
     "8","7","9","2","5","6","2","8","3","0","2","7","5","5","9","9","5",
     "6","5","7","5","2","4","4","5","5","5","0","7","2","5","5","1","8",
     "9","3","1","3","6","9","0","8","3","6","2","5","4","7","7","9","1",
     "8","6","9","4","8","6","6","7","9","9","4","9","6","8","3","2","4",
     "0","4","9","7","0","5","8","2","1","0","2","8","5","1","3","1","8",
     "5","4","5","1","3","9","6","2","1","3","8","3","7","7","2","2","8",
     "2","6","1","4","5","4","3","7","6","9","3","4","1","2","5","3","2",
     "0","9","8","5","9","1","3","2","7","6","6","7","2","3","6","3","2",
     "8","1","2","5">>

\* do the significant digits a (first digit not zero) give a greater
\* fraction 0.a than the digits b?
DigitsAbove(a, b) ==
    \E i \in 1..Len(a) :
        /\ i - 1 <= Len(b)
        /\ SubSeq(a, 1, i - 1) = SubSeq(b, 1, i - 1)
        /\ IF i > Len(b) THEN a[i] # "0" \/ \E n \in i..Len(a) : a[n] # "0"
           ELSE DigitVal(a[i]) > DigitVal(b[i])

\* an unsigned decimal literal (digits, a point, an exponent) whose value
\* does not round to zero
PositiveDecimal(u) ==
    LET a == SkipDigits(u, 1)
        hasDot == a <= Len(u) /\ u[a] = "."
        b == IF hasDot THEN SkipDigits(u, a + 1) ELSE a
        int == SubSeq(u, 1, a - 1)
        frac == IF hasDot THEN SubSeq(u, a + 1, b - 1) ELSE <<>>
        hasExp == b <= Len(u) /\ u[b] \in {"e", "E"}
        signed == hasExp /\ b + 1 <= Len(u) /\ u[b + 1] \in {"+", "-"}
        c == IF signed THEN b + 2 ELSE b + 1
        d == IF hasExp THEN SkipDigits(u, c) ELSE b
        expDigits == IF hasExp THEN StripZeros(SubSeq(u, c, d - 1)) ELSE <<>>
        negExp == signed /\ u[b + 1] = "-"
        sig == int \o frac
        \* the power of ten of the first digit that is not zero
        Lead(f) == Len(int) - f
        Exp == IF negExp THEN 0 - DigitsToNat(expDigits) ELSE DigitsToNat(expDigits)
        NotZero(f) ==
            IF Len(expDigits) > 9 THEN ~negExp
            ELSE \/ Lead(f) + Exp > -324
                 \/ /\ Lead(f) + Exp = -324
                    /\ DigitsAbove(SubSeq(sig, f, Len(sig)), HalfLeastDigits)
    IN /\ Len(int) + Len(frac) > 0
       /\ hasExp => d > c
       /\ d = Len(u) + 1
       /\ \E f \in 1..Len(sig) :
             /\ sig[f] # "0"
             /\ \A n \in 1..(f - 1) : sig[n] = "0"
             /\ NotZero(f)

HexDigits ==
    {"0","1","2","3","4","5","6","7","8","9",
     "a","b","c","d","e","f","A","B","C","D","E","F"}

\* StringToNumber(s) > 0: white space stripped, then Infinity, a hexadecimal,
\* octal or binary literal without sign, or a decimal literal with an
\* optional sign; anything else is NaN
PositiveNumber(s) ==
    LET t == StripSpace(s)
        Radix(letters, digits) ==
            /\ Len(t) > 2
            /\ t[1] = "0"
            /\ t[2] \in letters
            /\ \A i \in 3..Len(t) : t[i] \in digits
            /\ \E i \in 3..Len(t) : t[i] # "0"
    IN \/ t = <<"I","n","f","i","n","i","t","y">>
       \/ t = <<"+","I","n","f","i","n","i","t","y">>
       \/ Radix({"x", "X"}, HexDigits)
       \/ Radix({"o", "O"}, {"0","1","2","3","4","5","6","7"})
       \/ Radix({"b", "B"}, {"0","1"})
       \/ PositiveDecimal(IF t # <<>> /\ t[1] = "+" THEN Tail(t) ELSE t)

\* x > 0: [ok |-> TRUE, v |-> the comparison], or Threw.  NaN compares
\* false; an object or array is converted to a primitive first.
GreaterThanZero(x) ==
    CASE TagOf(x) = "num"  -> [ok |-> TRUE, v |-> ValOf(x) > 0]
      [] TagOf(x) = "bool" -> [ok |-> TRUE, v |-> ValOf(x)]
      [] TagOf(x) \in {"undef", "null", "nan"} -> [ok |-> TRUE, v |-> FALSE]
      [] OTHER -> LET r == ToStringJS(x) IN
                  IF r.ok THEN [ok |-> TRUE, v |-> PositiveNumber(r.s)] ELSE Threw

\* x || d
OrElse(x, d) == IF Truthy(x) THEN x ELSE d

(***************************************************************************)
(* processSeverityData                                                     *)
(***************************************************************************)
SeverityCounts0 ==
    <<<<sHigh, JNum(0)>>, <<sMedium, JNum(0)>>, <<sLow, JNum(0)>>,
      <<sUnspecifiedLc, JNum(0)>>>>

\* the body of the forEach callback: counts after one finding, or a throw
CountSeverity(counts, finding) ==
    IF Nullish(finding) THEN Threw
    ELSE LET s0 == OrElse(Get(finding, sSeverity), JStr(sUnspecifiedLc)) IN
         IF TagOf(s0) # "str" THEN Threw
         ELSE LET sev == ToLowerCase(ValOf(s0))
                  n == AddOne(OrElse(GetOwnOrProto(counts, sev), JNum(0)))
              IN IF ~n.ok THEN Threw
                 ELSE [ok |-> TRUE, counts |-> SetProp(counts, sev, n.v)]

RECURSIVE SeverityFold(_, _, _)
SeverityFold(findings, i, counts) ==
    IF i > Len(findings) THEN [ok |-> TRUE, counts |-> counts]
    ELSE LET r == CountSeverity(counts, findings[i]) IN
         IF r.ok THEN SeverityFold(findings, i + 1, r.counts) ELSE Threw

SeverityResult(counts) ==
    [ok |-> TRUE,
     labels |-> <<Chars("High"), Chars("Medium"), Chars("Low"),
                 Chars("Unspecified")>>,
     values |-> <<GetOwnOrProto(counts, sHigh), GetOwnOrProto(counts, sMedium),
                  GetOwnOrProto(counts, sLow),
                  GetOwnOrProto(counts, sUnspecifiedLc)>>,
     colors |-> <<"rgba(220,53,69,0.7)", "rgba(255,193,7,0.7)",
                  "rgba(25,135,84,0.7)", "rgba(108,117,125,0.7)">>,
     borderColors |-> <<"rgba(220,53,69,1)", "rgba(255,193,7,1)",
                        "rgba(25,135,84,1)", "rgba(108,117,125,1)">>]

processSeverityData(data) ==
    IF Nullish(data) \/ Nullish(Get(data, sAnalysis)) THEN Threw
    ELSE LET findings == Get(Get(data, sAnalysis), sFindings) IN
         IF Nullish(findings) THEN SeverityResult(SeverityCounts0)
         ELSE IF TagOf(findings) # "arr" THEN Threw
         ELSE LET r == SeverityFold(ValOf(findings), 1, SeverityCounts0) IN
              IF r.ok THEN SeverityResult(r.counts) ELSE Threw

(***************************************************************************)
(* processBranchData                                                       *)
(***************************************************************************)
GoldenAngleMilli == 137508
FullTurnMilli == 360000

\* (i * 137.508) % 360 in thousandths of a degree, i counted from 0
Hue(i) == (i * GoldenAngleMilli) % FullTurnMilli

CountBranch(counts, p) ==
    IF Nullish(p) THEN Threw
    ELSE LET \* the property key of branchCounts[branch]
             key == ToStringJS(OrElse(Get(p, sBranch), JStr(sUnspecified)))
             Counted(n) ==
                 IF ~n.ok THEN Threw
                 ELSE [ok |-> TRUE, counts |-> SetProp(counts, key.s, n.v)]
         IN IF ~key.ok THEN Threw
            ELSE Counted(AddOne(OrElse(GetOwnOrProto(counts, key.s), JNum(0))))

RECURSIVE BranchFold(_, _, _)
BranchFold(participants, i, counts) ==
    IF i > Len(participants) THEN [ok |-> TRUE, counts |-> counts]
    ELSE LET r == CountBranch(counts, participants[i]) IN
         IF r.ok THEN BranchFold(participants, i + 1, r.counts) ELSE Threw

BranchResult(counts) ==
    LET labels == ObjectKeys(counts) IN
    [ok |-> TRUE,
     labels |-> labels,
     values |-> [i \in 1..Len(labels) |-> GetOwnOrProto(counts, labels[i])],
     colors |-> [i \in 1..Len(labels) |-> Hue(i - 1)]]

processBranchData(data) ==
    IF Nullish(data) \/ Nullish(Get(data, sAnalysis)) THEN Threw
    ELSE LET participants == Get(Get(data, sAnalysis), sParticipants) IN
         IF Nullish(participants) THEN BranchResult(<<>>)
         ELSE IF TagOf(participants) # "arr" THEN Threw
         ELSE LET r == BranchFold(ValOf(participants), 1, <<>>) IN
              IF r.ok THEN BranchResult(r.counts) ELSE Threw

(***************************************************************************)
(* Result Renderer and Chart Presenter                                     *)
(***************************************************************************)
\* getSeverityBadgeClass: [ok |-> FALSE] when toLowerCase is no function
getSeverityBadgeClass(severity) ==
    LET s0 == OrElse(severity, JStr(<<>>)) IN
    IF TagOf(s0) # "str" THEN [ok |-> FALSE, class |-> "none"]
    ELSE LET sev == ToLowerCase(ValOf(s0)) IN
         [ok |-> TRUE,
          class |-> IF Includes(sev, sHigh) THEN "danger"
                    ELSE IF Includes(sev, sMedium) THEN "warning"
                    ELSE IF Includes(sev, sLow) THEN "success"
                    ELSE "secondary"]

BlankPanel == [rendered |-> FALSE, placeholder |-> FALSE, entries |-> <<>>]

\* the text of the executive summary card: [ok |-> TRUE, s |-> the text], or
\* Threw when the summary cannot be converted to a string
SummaryText(data) ==
    ToStringJS(OrElse(Get(Get(data, sAnalysis), sSummary),
                      JStr(Chars("No summary available"))))

\* the executive summary card, for a summary that converts to a string
SummaryPanel(data) ==
    [rendered |-> TRUE, placeholder |-> FALSE, entries |-> <<SummaryText(data).s>>]

\* A findings entry that shows the index of the callback as it is (from 0).
FindingEntryFromZero(finding, index) ==
    IF Nullish(finding) THEN Threw
    ELSE LET b == getSeverityBadgeClass(Get(finding, sSeverity))
             title == ToStringJS(OrElse(Get(finding, sTitle),
                                        JStr(Chars("Untitled Finding"))))
             description == ToStringJS(OrElse(Get(finding, sDescription),
                                              JStr(Chars("No description provided"))))
             recommendation ==
                 IF Truthy(Get(finding, sRecommendation))
                 THEN ToStringJS(Get(finding, sRecommendation))
                 ELSE [ok |-> TRUE, s |-> <<>>]
         IN IF ~b.ok \/ ~title.ok \/ ~description.ok \/ ~recommendation.ok
            THEN Threw
            ELSE [ok |-> TRUE,
                  entry |-> [n |-> index,
                             badge |-> b.class,
                             title |-> title.s,
                             description |-> description.s,
                             recommendation |-> recommendation.s]]

\* one findings entry, as the forEach callback appends it
FindingEntry(finding, index) ==
    IF Nullish(finding) THEN Threw
    ELSE LET b == getSeverityBadgeClass(Get(finding, sSeverity))
             title == ToStringJS(OrElse(Get(finding, sTitle),
                                        JStr(Chars("Untitled Finding"))))
             description == ToStringJS(OrElse(Get(finding, sDescription),
                                              JStr(Chars("No description provided"))))
             recommendation ==
                 IF Truthy(Get(finding, sRecommendation))
                 THEN ToStringJS(Get(finding, sRecommendation))
                 ELSE [ok |-> TRUE, s |-> <<>>]
         IN IF ~b.ok \/ ~title.ok \/ ~description.ok \/ ~recommendation.ok
            THEN Threw
            ELSE [ok |-> TRUE,
                  entry |-> [n |-> index + 1,
                             badge |-> b.class,
                             title |-> title.s,
                             description |-> description.s,
                             recommendation |-> recommendation.s]]

RECURSIVE FindingEntries(_, _, _)
FindingEntries(findings, i, acc) ==
    IF i > Len(findings) THEN [ok |-> TRUE, entries |-> acc]
    ELSE LET e == FindingEntry(findings[i], i - 1) IN
         IF e.ok THEN FindingEntries(findings, i + 1, Append(acc, e.entry))
         ELSE Threw

\* the findings card: entries, or the "No findings available" placeholder
FindingsPanel(data) ==
    LET findings == Get(Get(data, sAnalysis), sFindings)
        Placeholder ==
            [ok |-> TRUE,
             panel |-> [rendered |-> TRUE, placeholder |-> TRUE, entries |-> <<>>]]
        Listed(r) ==
            IF r.ok
            THEN [ok |-> TRUE,
                  panel |-> [rendered |-> TRUE, placeholder |-> FALSE,
                             entries |-> r.entries]]
            ELSE Threw
        \* findings ?.length > 0 has ended as g
        Compared(g) ==
            IF ~g.ok THEN Threw
            ELSE IF ~g.v THEN Placeholder
            ELSE IF TagOf(findings) # "arr" THEN Threw
            ELSE Listed(FindingEntries(ValOf(findings), 1, <<>>))
    IN IF Nullish(findings) THEN Placeholder
       ELSE Compared(GreaterThanZero(LengthOf(findings)))

NoChart == [set |-> FALSE, alive |-> FALSE, labels |-> <<>>, values |-> <<>>]

\* new Chart(canvas, {data: {labels, datasets: [{data: values}]}})
NewChart(d) == [set |-> TRUE, alive |-> TRUE, labels |-> d.labels, values |-> d.values]

\* if (chart) chart.destroy()
DestroyIfSet(chart) == IF chart.set THEN [chart EXCEPT !.alive = FALSE] ELSE chart

LiveAfterDestroy(chart, n) == IF chart.set /\ chart.alive THEN n - 1 ELSE n

\* generateCharts on the view v: both aggregations run before either chart
\* is created
generateCharts(data, v) ==
    LET severityData == processSeverityData(data)
        branchData == processBranchData(data)
    IN IF ~severityData.ok \/ ~branchData.ok
       THEN [ok |-> FALSE, view |-> v]
       ELSE [ok |-> TRUE,
             view |-> [v EXCEPT !.severityChart = NewChart(severityData),
                                !.branchChart = NewChart(branchData),
                                !.liveSeverity = @ + 1,
                                !.liveBranch = @ + 1]]

\* A renderer that keeps what the page showed: old charts are left alone
\* and the new findings are appended to the entries already listed.
displayResultsAppending(data, v) ==
    IF Nullish(data) \/ Nullish(Get(data, sAnalysis)) \/ ~SummaryText(data).ok
    THEN [ok |-> FALSE, view |-> v]
    ELSE LET v2 == [v EXCEPT !.executiveSummary = SummaryPanel(data)]
             f == FindingsPanel(data)
         IN IF ~f.ok THEN [ok |-> FALSE, view |-> v2]
            ELSE generateCharts(data,
                   [v2 EXCEPT !.detailedFindings =
                      [f.panel EXCEPT !.entries = v.detailedFindings.entries \o @]])

\* displayResults on the view v = [severityChart, branchChart, liveSeverity,
\* liveBranch, executiveSummary, detailedFindings]: the view it leaves, and
\* whether it returned (ok) or threw part-way
displayResults(data, v) ==
    LET v1 == [v EXCEPT !.severityChart = DestroyIfSet(v.severityChart),
                        !.branchChart = DestroyIfSet(v.branchChart),
                        !.liveSeverity = LiveAfterDestroy(v.severityChart, @),
                        !.liveBranch = LiveAfterDestroy(v.branchChart, @)]
    IN IF Nullish(data) \/ Nullish(Get(data, sAnalysis)) \/ ~SummaryText(data).ok
       THEN [ok |-> FALSE, view |-> v1]
       ELSE LET v2 == [v1 EXCEPT !.executiveSummary = SummaryPanel(data)]
                f == FindingsPanel(data)
            IN IF ~f.ok THEN [ok |-> FALSE, view |-> v2]
               ELSE generateCharts(data, [v2 EXCEPT !.detailedFindings = f.panel])

(***************************************************************************)
(* Bounds of the model.                                                    *)
(***************************************************************************)
MaxAnalyses == 2
MaxReports == 1
MaxFindings == 3
MaxParticipants == 3
MaxDisplays == 3

(***************************************************************************)
(* What the user can put in the textarea.                                  *)
(***************************************************************************)
Member(k, valueToks) == <<TStr(k), COLON>> \o valueToks
Braces(memberToks) == <<LB>> \o memberToks \o <<RB>>
Brackets(itemToks) == <<LS>> \o itemToks \o <<RS>>

\* a document cut short: whitespace around an unclosed brace
docUnclosed == <<WS, LB, WS>>
docNull == <<TNULL>>
docNumber == <<TNum(5)>>
docNoReport == Braces(Member(sExceptions, Brackets(Braces(Member(sSeverity, <<TStr(sHigh)>>)))))
docNoExceptions == Braces(Member(sAuditReport, Braces(<<>>)))
docZeroExceptions == Braces(Member(sAuditReport, Braces(Member(sExceptions, <<TNum(0)>>))))
docEmptyExceptions == Braces(Member(sAuditReport, Braces(Member(sExceptions, Brackets(<<>>)))))
docStringExceptions ==
    Braces(Member(sAuditReport, Braces(Member(sExceptions, <<TStr(<<"x">>)>>))))
docValid ==
    <<WS, FF>> \o
    Braces(Member(sAuditReport, Braces(Member(sExceptions,
        Brackets(Braces(Member(sSeverity, <<TStr(<<"H","i","g","h">>)>>)))))))
    \o <<WS>>

Documents ==
    {docUnclosed, docNull, docNumber, docNoReport, docNoExceptions,
     docZeroExceptions, docEmptyExceptions, docStringExceptions, docValid}

(***************************************************************************)
(* What the analysis service can answer.                                   *)
(***************************************************************************)
FindingToks(sev) == Braces(Member(sSeverity, <<TStr(sev)>>))
ParticipantToks(br) == Braces(Member(sBranch, <<TStr(br)>>))

\* {"analysis":{"summary":"OK","findings":[{"severity":"medium"}],
\*  "participants":[{"branch":"NYC"}]}}
bodyExample ==
    Braces(Member(sAnalysis, Braces(
        Member(sSummary, <<TStr(<<"O","K">>)>>) \o <<COMMA>> \o
        Member(sFindings, Brackets(FindingToks(sMedium))) \o <<COMMA>> \o
        Member(sParticipants, Brackets(ParticipantToks(<<"N","Y","C">>))))))

\* no summary, two findings (one with a title and an unknown severity), three
\* participants, one without a branch
bodyTwoFindings ==
    Braces(Member(sAnalysis, Braces(
        Member(sFindings, Brackets(
            FindingToks(<<"H","I","G","H">>) \o <<COMMA>> \o
            Braces(Member(sSeverity, <<TStr(<<"c","r","i","t","i","c","a","l">>)>>)
                   \o <<COMMA>> \o Member(sTitle, <<TStr(<<"T">>)>>)
                   \o <<COMMA>> \o Member(sRecommendation, <<TStr(<<"R">>)>>))))
        \o <<COMMA>> \o
        Member(sParticipants, Brackets(
            ParticipantToks(<<"2">>) \o <<COMMA>> \o
            ParticipantToks(<<"1">>) \o <<COMMA>> \o Braces(<<>>))))))

\* {"analysis":{"summary":"S","findings":[]}}
bodyNoFindings ==
    Braces(Member(sAnalysis, Braces(
        Member(sSummary, <<TStr(<<"S">>)>>) \o <<COMMA>> \o
        Member(sFindings, Brackets(<<>>)))))

\* {} : no analysis field
bodyNoAnalysis == Braces(<<>>)

\* null
bodyNull == <<TNULL>>

\* {"analysis":{"summary":"P","findings":[{"severity":5}]}} : rendering the
\* finding throws
bodyBadSeverity ==
    Braces(Member(sAnalysis, Braces(
        Member(sSummary, <<TStr(<<"P">>)>>) \o <<COMMA>> \o
        Member(sFindings, Brackets(Braces(Member(sSeverity, <<TNum(5)>>)))))))

\* {"analysis":{"summary":"Q","participants":5}} : both panels render, the
\* branch aggregation throws
bodyBadParticipants ==
    Braces(Member(sAnalysis, Braces(
        Member(sSummary, <<TStr(<<"Q">>)>>) \o <<COMMA>> \o
        Member(sParticipants, <<TNum(5)>>))))

\* {"error":"bad"}
bodyError == Braces(Member(sError, <<TStr(<<"b","a","d">>)>>))

\* not JSON (an HTML error page, say)
bodyNotJson == <<Tok("<")>>

\* What /analyze can answer: the status (ok), the body, and whether the body
\* arrives whole (complete) or the read of it fails.
AnalyzeResponses ==
    {[ok |-> TRUE, body |-> b, complete |-> TRUE] :
        b \in {bodyExample, bodyTwoFindings, bodyNoFindings, bodyNoAnalysis,
               bodyNull, bodyBadSeverity, bodyBadParticipants, bodyNotJson}}
    \cup
    {[ok |-> FALSE, body |-> b, complete |-> TRUE] :
        b \in {bodyError, bodyNoAnalysis, bodyNull, bodyNotJson}}
    \cup
    {[ok |-> TRUE, body |-> bodyExample, complete |-> FALSE],
     [ok |-> FALSE, body |-> bodyError, complete |-> FALSE],
     \* the body of the example behind a byte order mark
     [ok |-> TRUE, body |-> <<Tok("BOM")>> \o bodyExample, complete |-> TRUE]}

(***************************************************************************)
(* The page: the state of one browser tab, and the localStorage it shares  *)
(* with earlier and later loads of the page.                               *)
(***************************************************************************)
VARIABLES
    storage,            \* localStorage item 'previousAnalysis': [has, text]
    wired,              \* the listeners the DOMContentLoaded handler registered
    auditData,          \* the textarea's value
    currentAnalysis,
    severityChart, branchChart,
    liveSeverity, liveBranch,   \* chart instances alive on each canvas
    executiveSummary, detailedFindings,
    resultsShown,       \* #resultsSection has lost its d-none class
    alert,              \* the alert showAlert prepended last: shown, faded
                        \* (its first timer has fired) or removed
    analyzeBtn, generateReportBtn,
    analyzeReqs,        \* /analyze calls whose handler has not ended
    reportReqs,         \* /generate-report calls whose handler has not ended
    analyzeAt,          \* for each /analyze call the await its handler is
                        \* suspended at: "fetch" or "json"
    reportAt,           \* for each /generate-report call: "fetch" or "blob"
    downloads,          \* files offered to the user
    last,               \* the handler that ran last (load, click or response
                        \* continuation), and how it ended
    nAnalyze,           \* /analyze calls issued so far
    aggIn, aggOut       \* the aggregators applied to a document on their own

viewVars == <<severityChart, branchChart, liveSeverity, liveBranch,
              executiveSummary, detailedFindings>>
aggVars == <<aggIn, aggOut>>
pageVars == <<storage, wired, auditData, currentAnalysis, viewVars,
              resultsShown, alert, analyzeBtn, generateReportBtn, analyzeReqs,
              reportReqs, analyzeAt, reportAt, downloads, last, nAnalyze>>
vars == <<pageVars, aggVars>>

\* the ids the page declares (the elements getElementById finds)
PageIds ==
    {"alertContainer", "validationAlert", "auditData", "analyzeBtn",
     "resultsSection", "apiErrorAlert", "apiErrorText", "reportAlert",
     "executiveSummary", "severityChart", "branchChart", "detailedFindings",
     "generateReportBtn"}

\* addEventListener calls of the DOMContentLoaded handler, in source order
Registrations ==
    <<[h |-> "analyze", id |-> "analyzeBtn"],
      [h |-> "report", id |-> "generateReportBtn"],
      [h |-> "upload", id |-> "fileUpload"],
      [h |-> "exportSeverity", id |-> "exportSeverityBtn"],
      [h |-> "exportBranch", id |-> "exportBranchBtn"]>>

\* a registration on a missing element throws and ends the handler
ListenersWired ==
    {Registrations[i].h : i \in
        {n \in 1..Len(Registrations) :
            \A j \in 1..n : Registrations[j].id \in PageIds}}

NoStorage == [has |-> FALSE, text |-> <<>>]
NoAlert == [state |-> "none", type |-> "none", message |-> <<>>]

\* showAlert
showAlert(message, type) == [state |-> "show", type |-> type, message |-> message]

\* A loading state that changes the caption and spinner only.
setLoadingStateCaptionOnly(isLoading, text) ==
    [disabled |-> FALSE, spinner |-> isLoading, text |-> text]

\* setLoadingState
setLoadingState(isLoading, text) ==
    [disabled |-> isLoading, spinner |-> isLoading, text |-> text]

msgValidation == Chars("JSON must contain audit_report with exceptions array")
msgNoAnalysis == Chars("No analysis results available")
msgAnalysisFailed == Chars("Analysis failed")
msgReportFailed == Chars("Report generation failed")
\* messages the engine words
msgSyntaxError == Chars("(SyntaxError)")
msgTypeError == Chars("(TypeError)")
msgNetworkError == Chars("(NetworkError)")

AnalysisAlert(detail) ==
    showAlert(Chars("Analysis failed: ") \o detail, "danger")
ReportAlert(detail) ==
    showAlert(Chars("Report generation failed: ") \o detail, "danger")

View ==
    [severityChart |-> severityChart, branchChart |-> branchChart,
     liveSeverity |-> liveSeverity, liveBranch |-> liveBranch,
     executiveSummary |-> executiveSummary, detailedFindings |-> detailedFindings]

BlankView ==
    [severityChart |-> NoChart, branchChart |-> NoChart,
     liveSeverity |-> 0, liveBranch |-> 0,
     executiveSummary |-> BlankPanel, detailedFindings |-> BlankPanel]

SetView(v) ==
    /\ severityChart' = v.severityChart
    /\ branchChart' = v.branchChart
    /\ liveSeverity' = v.liveSeverity
    /\ liveBranch' = v.liveBranch
    /\ executiveSummary' = v.executiveSummary
    /\ detailedFindings' = v.detailedFindings

Event(ev, out) == [ev |-> ev, out |-> out]

AggIdle == [op |-> "none", r |-> Threw]

\* The DOMContentLoaded handler on a fresh document, given the stored item:
\* what it leaves in the tab.
Loaded(item) ==
    LET \* displayResults(data) has ended as d; then line 24 and the listeners
        Restored(data, d) ==
            IF d.ok
            THEN [currentAnalysis |-> data, view |-> d.view, shown |-> TRUE,
                  wired |-> ListenersWired, out |-> "restored"]
            ELSE [currentAnalysis |-> data, view |-> d.view, shown |-> FALSE,
                  wired |-> {}, out |-> "threw"]
        \* JSON.parse(savedAnalysis) has ended as p
        Parsed(p) ==
            IF ~p.ok
            THEN [currentAnalysis |-> JNull, view |-> BlankView, shown |-> FALSE,
                  wired |-> {}, out |-> "threw"]
            ELSE Restored(p.v, displayResults(p.v, BlankView))
    \* if (savedAnalysis): an absent item and the empty text are skipped
    IN IF ~item.has \/ item.text = <<>>
       THEN [currentAnalysis |-> JNull, view |-> BlankView, shown |-> FALSE,
             wired |-> ListenersWired, out |-> "fresh"]
       ELSE Parsed(JSONParse(item.text))

TabAfterLoad(item) ==
    LET Becomes(l) ==
            /\ wired' = l.wired
            /\ auditData' = <<>>
            /\ currentAnalysis' = l.currentAnalysis
            /\ SetView(l.view)
            /\ resultsShown' = l.shown
            /\ alert' = NoAlert
            /\ analyzeBtn' = setLoadingState(FALSE, "Analyze Data")
            /\ generateReportBtn' = setLoadingState(FALSE, "Generate Word Report")
            /\ analyzeReqs' = <<>>
            /\ reportReqs' = <<>>
            /\ analyzeAt' = <<>>
            /\ reportAt' = <<>>
            /\ last' = Event("load", l.out)
    IN Becomes(Loaded(item))

InitPage ==
    /\ storage = NoStorage
    /\ wired = ListenersWired
    /\ auditData = <<>>
    /\ currentAnalysis = JNull
    /\ severityChart = NoChart
    /\ branchChart = NoChart
    /\ liveSeverity = 0
    /\ liveBranch = 0
    /\ executiveSummary = BlankPanel
    /\ detailedFindings = BlankPanel
    /\ resultsShown = FALSE
    /\ alert = NoAlert
    /\ analyzeBtn = setLoadingState(FALSE, "Analyze Data")
    /\ generateReportBtn = setLoadingState(FALSE, "Generate Word Report")
    /\ analyzeReqs = <<>>
    /\ reportReqs = <<>>
    /\ analyzeAt = <<>>
    /\ reportAt = <<>>
    /\ downloads = <<>>
    /\ last = Event("load", "fresh")
    /\ nAnalyze = 0

\* The page as a fresh browser profile loads it: nothing stored.
Init ==
    /\ InitPage
    /\ aggIn = JNull
    /\ aggOut = AggIdle

\* The user reloads the page (or opens it again): the tab's state is gone,
\* localStorage stays, and the DOMContentLoaded handler runs.
Reload ==
    /\ TabAfterLoad(storage)
    /\ UNCHANGED <<storage, downloads, nAnalyze, aggVars>>

\* The user edits the textarea.
TypeText(d) ==
    /\ auditData' = d
    /\ auditData # d
    /\ UNCHANGED <<last, storage, wired, currentAnalysis, viewVars, resultsShown, alert,
                   analyzeBtn, generateReportBtn, analyzeReqs, reportReqs,
                   analyzeAt, reportAt, downloads, nAnalyze, aggVars>>

\* reader.onload of a read that the change handler of #fileUpload started
\* for the chosen file: the text of the file is put in the textarea.  The
\* change handler itself (lines 91-97) only starts the read and writes
\* nothing of the page, so the read's end is the one step that shows.  It
\* runs only where the load registered the handler.
UploadRead(d) ==
    /\ "upload" \in wired
    /\ auditData' = d
    /\ UNCHANGED <<last, storage, wired, currentAnalysis, viewVars, resultsShown, alert,
                   analyzeBtn, generateReportBtn, analyzeReqs, reportReqs,
                   analyzeAt, reportAt, downloads, nAnalyze, aggVars>>

(***************************************************************************)
(* Analyze: the click handler of #analyzeBtn up to its fetch, and its      *)
(* continuation when the response has arrived.                             *)
(***************************************************************************)
\* A lookup that stops at audit_report.
ExceptionsOfReportOnly(doc) == Get(doc, sAuditReport)

\* auditData.audit_report ?.exceptions, for a parsed auditData that is
\* neither null nor undefined
ExceptionsOf(doc) ==
    LET report == Get(doc, sAuditReport) IN
    IF Nullish(report) THEN JUndef ELSE Get(report, sExceptions)

\* A validation that lets text through when it cannot be parsed.
ValidateSendsUnparsed(auditDataText) ==
    LET p == JSONParse(auditDataText) IN
    IF ~p.ok THEN "send"
    ELSE IF Nullish(p.v) THEN "typeError"
    ELSE IF ~Truthy(ExceptionsOf(p.v)) THEN "missing"
    ELSE "send"

\* A validation that does not look at audit_report.exceptions.
ValidateAnyDocument(auditDataText) ==
    LET p == JSONParse(auditDataText) IN
    IF ~p.ok THEN "syntaxError"
    ELSE IF Nullish(p.v) THEN "typeError"
    ELSE "send"

\* The try block up to the fetch: how it ends for the trimmed text.
\*   "syntaxError"  JSON.parse threw
\*   "typeError"    reading audit_report of null threw
\*   "missing"      the validation alert, and return
\*   "send"         the request is issued
Validate(auditDataText) ==
    LET p == JSONParse(auditDataText) IN
    IF ~p.ok THEN "syntaxError"
    ELSE IF Nullish(p.v) THEN "typeError"
    ELSE IF ~Truthy(ExceptionsOf(p.v)) THEN "missing"
    ELSE "send"

\* the alert the click leaves when it does not send
ValidationAlert(outcome) ==
    CASE outcome = "syntaxError" -> AnalysisAlert(msgSyntaxError)
      [] outcome = "typeError"   -> AnalysisAlert(msgTypeError)
      [] outcome = "missing"     -> showAlert(msgValidation, "danger")

\* The click on #analyzeBtn, while fewer than max requests have been issued.
AnalyzeClickUpTo(max) ==
    /\ "analyze" \in wired
    /\ ~analyzeBtn.disabled
    /\ LET auditDataText == Trim(auditData)
           outcome == Validate(auditDataText)
       IN /\ last' = Event("analyzeClick", outcome)
          /\ IF outcome = "send"
             THEN /\ nAnalyze < max
                  /\ nAnalyze' = nAnalyze + 1
                  /\ analyzeBtn' = setLoadingState(TRUE, "Analyzing...")
                  /\ analyzeReqs' = Append(analyzeReqs, [body |-> auditDataText])
                  /\ analyzeAt' = Append(analyzeAt, "fetch")
                  /\ alert' = alert
             ELSE /\ alert' = ValidationAlert(outcome)
                  /\ analyzeBtn' = setLoadingState(FALSE, "Analyze Data")
                  /\ UNCHANGED <<analyzeReqs, analyzeAt, nAnalyze>>
    /\ UNCHANGED <<storage, wired, auditData, currentAnalysis, viewVars,
                   resultsShown, generateReportBtn, reportReqs, reportAt,
                   downloads, aggVars>>

AnalyzeClick == AnalyzeClickUpTo(MaxAnalyses)

RemoveAt(q, i) == SubSeq(q, 1, i - 1) \o SubSeq(q, i + 1, Len(q))

\* The text response.json() parses: the body decoded as UTF-8, which drops
\* a byte order mark at its start.
BodyText(body) ==
    IF body # <<>> /\ body[1].k = "BOM" THEN Tail(body) ELSE body

\* The rest of the try block once response.json() has settled, and the catch
\* block: what the tab holds afterwards.  tab = [currentAnalysis, storage,
\* view, shown, alert, out]; out tells how the handler ended:
\*   "jsonRejected"  response.json() rejected (the body did not arrive whole,
\*                   or its text is not JSON)
\*   "serviceError"  the response was not ok
\*   "displayThrew"  displayResults threw part-way
\*   "displayed"     the results were displayed on a page without live charts
\*   "replaced"      the results were displayed and live charts were destroyed
AfterAnalyzeResponse(resp, tab) ==
    LET \* lines 50-53: data is kept and stored, displayResults(data) ended as d
        Displayed(data, d) ==
            IF d.ok
            THEN [tab EXCEPT
                    !.currentAnalysis = data,
                    !.storage = [has |-> TRUE, text |-> JSONStringify(data)],
                    !.view = d.view,
                    !.shown = TRUE,
                    !.out = IF tab.view.severityChart.alive \/ tab.view.branchChart.alive
                            THEN "replaced" ELSE "displayed"]
            ELSE [tab EXCEPT
                    !.currentAnalysis = data,
                    !.storage = [has |-> TRUE, text |-> JSONStringify(data)],
                    !.view = d.view,
                    !.alert = AnalysisAlert(msgTypeError),
                    !.out = "displayThrew"]
        \* new Error(data.error || 'Analysis failed') has converted its
        \* argument to the message e, or thrown a TypeError instead
        Refused(e) ==
            [tab EXCEPT !.alert = AnalysisAlert(IF e.ok THEN e.s ELSE msgTypeError),
                        !.out = "serviceError"]
        \* response.json() has ended as p
        Parsed(p) ==
            IF ~p.ok
            THEN [tab EXCEPT !.alert = AnalysisAlert(msgSyntaxError),
                             !.out = "jsonRejected"]
            ELSE IF ~resp.ok
            THEN IF Nullish(p.v)
                 THEN [tab EXCEPT !.alert = AnalysisAlert(msgTypeError),
                                  !.out = "serviceError"]
                 ELSE Refused(ToStringJS(OrElse(Get(p.v, sError),
                                                JStr(msgAnalysisFailed))))
            ELSE Displayed(p.v, displayResults(p.v, tab.view))
    IN IF ~resp.complete
       THEN [tab EXCEPT !.alert = AnalysisAlert(msgNetworkError),
                        !.out = "jsonRejected"]
       ELSE Parsed(JSONParse(BodyText(resp.body)))

Tab ==
    [currentAnalysis |-> currentAnalysis, storage |-> storage, view |-> View,
     shown |-> resultsShown, alert |-> alert, out |-> "none"]

SetTab(t, ev) ==
    /\ currentAnalysis' = t.currentAnalysis
    /\ storage' = t.storage
    /\ SetView(t.view)
    /\ resultsShown' = t.shown
    /\ alert' = t.alert
    /\ last' = Event(ev, t.out)

\* fetch resolves for the i-th pending /analyze call: the handler calls
\* response.json() (line 47) and is suspended again until the body is read.
AnalyzeFetched(i) ==
    /\ i \in 1..Len(analyzeReqs)
    /\ analyzeAt[i] = "fetch"
    /\ analyzeAt' = [analyzeAt EXCEPT ![i] = "json"]
    /\ UNCHANGED <<last, storage, wired, auditData, currentAnalysis, viewVars,
                   resultsShown, alert, analyzeBtn, generateReportBtn,
                   analyzeReqs, reportReqs, reportAt, downloads, nAnalyze,
                   aggVars>>

\* A response handler without the finally block: the control is restored on
\* the success path only.
AnalyzeResponseNoFinally(i, resp) ==
    /\ i \in 1..Len(analyzeReqs)
    /\ analyzeAt[i] = "json"
    /\ SetTab(AfterAnalyzeResponse(resp, Tab), "analyzeResponse")
    /\ analyzeBtn' = IF last'.out \in {"displayed", "replaced"}
                     THEN setLoadingState(FALSE, "Analyze Data")
                     ELSE analyzeBtn
    /\ analyzeReqs' = RemoveAt(analyzeReqs, i)
    /\ analyzeAt' = RemoveAt(analyzeAt, i)
    /\ UNCHANGED <<wired, auditData, generateReportBtn, reportReqs, reportAt,
                   downloads, nAnalyze, aggVars>>

\* response.json() settles for the i-th pending /analyze call, whose
\* response is resp, and the handler runs to its end (finally included).
AnalyzeResponse(i, resp) ==
    /\ i \in 1..Len(analyzeReqs)
    /\ analyzeAt[i] = "json"
    /\ SetTab(AfterAnalyzeResponse(resp, Tab), "analyzeResponse")
    /\ analyzeBtn' = setLoadingState(FALSE, "Analyze Data")
    /\ analyzeReqs' = RemoveAt(analyzeReqs, i)
    /\ analyzeAt' = RemoveAt(analyzeAt, i)
    /\ UNCHANGED <<wired, auditData, generateReportBtn, reportReqs, reportAt,
                   downloads, nAnalyze, aggVars>>

\* A rejected fetch that drops the analysis the page holds.
AnalyzeNetworkErrorForgets(i) ==
    /\ i \in 1..Len(analyzeReqs)
    /\ analyzeAt[i] = "fetch"
    /\ alert' = AnalysisAlert(msgNetworkError)
    /\ last' = Event("analyzeResponse", "networkError")
    /\ analyzeBtn' = setLoadingState(FALSE, "Analyze Data")
    /\ analyzeReqs' = RemoveAt(analyzeReqs, i)
    /\ analyzeAt' = RemoveAt(analyzeAt, i)
    /\ currentAnalysis' = JNull
    /\ UNCHANGED <<storage, wired, auditData, viewVars,
                   resultsShown, generateReportBtn, reportReqs, reportAt,
                   downloads, nAnalyze, aggVars>>

\* fetch rejects: the request never got an answer
AnalyzeNetworkError(i) ==
    /\ i \in 1..Len(analyzeReqs)
    /\ analyzeAt[i] = "fetch"
    /\ alert' = AnalysisAlert(msgNetworkError)
    /\ last' = Event("analyzeResponse", "networkError")
    /\ analyzeBtn' = setLoadingState(FALSE, "Analyze Data")
    /\ analyzeReqs' = RemoveAt(analyzeReqs, i)
    /\ analyzeAt' = RemoveAt(analyzeAt, i)
    /\ UNCHANGED <<storage, wired, auditData, currentAnalysis, viewVars,
                   resultsShown, generateReportBtn, reportReqs, reportAt,
                   downloads, nAnalyze, aggVars>>

(***************************************************************************)
(* Generate report: the click handler of #generateReportBtn.               *)
(***************************************************************************)
\* A request body that carries the inner analysis object only.
ReportBodyInner(analysis) ==
    IF Nullish(Get(analysis, sAnalysis)) THEN <<>>
    ELSE JSONStringify(Get(analysis, sAnalysis))

\* body: JSON.stringify(currentAnalysis)
ReportBody(analysis) == JSONStringify(analysis)

\* A report handler without the guard.
ReportNeverRefused(analysis) == FALSE

\* if (!currentAnalysis): the handler warns and returns
ReportRefused(analysis) == ~Truthy(analysis)

\* The click on #generateReportBtn.  The button lies inside #resultsSection
\* (part_000:103,156), so the user can click it only while that section is
\* displayed.
ReportClick ==
    /\ "report" \in wired
    /\ resultsShown
    /\ ~generateReportBtn.disabled
    /\ IF ReportRefused(currentAnalysis)
       THEN /\ alert' = showAlert(msgNoAnalysis, "warning")
            /\ last' = Event("reportClick", "warned")
            /\ UNCHANGED <<generateReportBtn, reportReqs, reportAt>>
       ELSE /\ Len(downloads) + Len(reportReqs) < MaxReports
            /\ generateReportBtn' = setLoadingState(TRUE, "Generating...")
            /\ reportReqs' = Append(reportReqs,
                                    [body |-> ReportBody(currentAnalysis)])
            /\ reportAt' = Append(reportAt, "fetch")
            /\ alert' = alert
            /\ last' = Event("reportClick", "send")
    /\ UNCHANGED <<storage, wired, auditData, currentAnalysis, viewVars,
                   resultsShown, analyzeBtn, analyzeReqs, analyzeAt, downloads,
                   nAnalyze, aggVars>>

\* fetch resolves for the i-th pending /generate-report call with a status
\* that is a success (ok) or not.  A failure status throws at line 78 and the
\* handler runs to its end; on a success status the handler calls
\* response.blob() (line 79) and is suspended again until the body is read.
ReportResponse(i, ok) ==
    /\ i \in 1..Len(reportReqs)
    /\ reportAt[i] = "fetch"
    /\ IF ok
       THEN /\ reportAt' = [reportAt EXCEPT ![i] = "blob"]
            /\ UNCHANGED <<alert, last, generateReportBtn, reportReqs>>
       ELSE /\ alert' = ReportAlert(msgReportFailed)
            /\ last' = Event("reportResponse", "serviceError")
            /\ generateReportBtn' = setLoadingState(FALSE, "Generate Word Report")
            /\ reportReqs' = RemoveAt(reportReqs, i)
            /\ reportAt' = RemoveAt(reportAt, i)
    /\ UNCHANGED <<storage, wired, auditData, currentAnalysis, viewVars,
                   resultsShown, analyzeBtn, analyzeReqs, analyzeAt, downloads,
                   nAnalyze, aggVars>>

\* A body continuation that offers the download although the read failed.
ReportBlobIgnoresRead(i, read) ==
    /\ i \in 1..Len(reportReqs)
    /\ reportAt[i] = "blob"
    /\ downloads' = Append(downloads, "audit_report.docx")
    /\ alert' = alert
    /\ last' = Event("reportResponse", IF read THEN "downloaded" ELSE "blobRejected")
    /\ generateReportBtn' = setLoadingState(FALSE, "Generate Word Report")
    /\ reportReqs' = RemoveAt(reportReqs, i)
    /\ reportAt' = RemoveAt(reportAt, i)
    /\ UNCHANGED <<storage, wired, auditData, currentAnalysis, viewVars,
                   resultsShown, analyzeBtn, analyzeReqs, analyzeAt,
                   nAnalyze, aggVars>>

\* response.blob() settles for the i-th pending /generate-report call: the
\* body was read (read) and downloadFile offers it as audit_report.docx, or
\* the read was rejected and the catch block shows the engine's message.  The
\* handler runs to its end (finally included).
ReportBlob(i, read) ==
    /\ i \in 1..Len(reportReqs)
    /\ reportAt[i] = "blob"
    /\ IF read
       THEN /\ downloads' = Append(downloads, "audit_report.docx")
            /\ alert' = alert
            /\ last' = Event("reportResponse", "downloaded")
       ELSE /\ alert' = ReportAlert(msgNetworkError)
            /\ downloads' = downloads
            /\ last' = Event("reportResponse", "blobRejected")
    /\ generateReportBtn' = setLoadingState(FALSE, "Generate Word Report")
    /\ reportReqs' = RemoveAt(reportReqs, i)
    /\ reportAt' = RemoveAt(reportAt, i)
    /\ UNCHANGED <<storage, wired, auditData, currentAnalysis, viewVars,
                   resultsShown, analyzeBtn, analyzeReqs, analyzeAt,
                   nAnalyze, aggVars>>

\* fetch rejects: the request never got an answer
ReportNetworkError(i) ==
    /\ i \in 1..Len(reportReqs)
    /\ reportAt[i] = "fetch"
    /\ alert' = ReportAlert(msgNetworkError)
    /\ last' = Event("reportResponse", "networkError")
    /\ generateReportBtn' = setLoadingState(FALSE, "Generate Word Report")
    /\ reportReqs' = RemoveAt(reportReqs, i)
    /\ reportAt' = RemoveAt(reportAt, i)
    /\ UNCHANGED <<storage, wired, auditData, currentAnalysis, viewVars,
                   resultsShown, analyzeBtn, analyzeReqs, analyzeAt, downloads,
                   nAnalyze, aggVars>>

(***************************************************************************)
(* The timers showAlert starts.                                            *)
(***************************************************************************)
\* 5000 ms after showAlert the alert loses its 'show' class ...
AlertFade ==
    /\ alert.state = "show"
    /\ alert' = [alert EXCEPT !.state = "fade"]
    /\ UNCHANGED <<last, storage, wired, auditData, currentAnalysis, viewVars,
                   resultsShown, analyzeBtn, generateReportBtn, analyzeReqs,
                   reportReqs, analyzeAt, reportAt, downloads, nAnalyze,
                   aggVars>>

\* ... and 150 ms later it is removed from the document
AlertRemove ==
    /\ alert.state = "fade"
    /\ alert' = NoAlert
    /\ UNCHANGED <<last, storage, wired, auditData, currentAnalysis, viewVars,
                   resultsShown, analyzeBtn, generateReportBtn, analyzeReqs,
                   reportReqs, analyzeAt, reportAt, downloads, nAnalyze,
                   aggVars>>

Next ==
    \/ Reload
    \/ \E d \in Documents : TypeText(d)
    \/ AnalyzeClick
    \/ \E i \in 1..Len(analyzeReqs) : AnalyzeFetched(i)
    \/ \E i \in 1..Len(analyzeReqs) : \E resp \in AnalyzeResponses :
          AnalyzeResponse(i, resp)
    \/ \E i \in 1..Len(analyzeReqs) : AnalyzeNetworkError(i)
    \/ ReportClick
    \/ \E i \in 1..Len(reportReqs) : \E ok \in BOOLEAN : ReportResponse(i, ok)
    \/ \E i \in 1..Len(reportReqs) : \E read \in BOOLEAN : ReportBlob(i, read)
    \/ \E i \in 1..Len(reportReqs) : ReportNetworkError(i)
    \/ AlertFade
    \/ AlertRemove

Spec == Init /\ [][Next]_vars

(***************************************************************************)
(* The page under a user who only submits the valid document, so that      *)
(* three analyses in a row fit: their responses are displayed one after    *)
(* the other in the same tab.                                              *)
(***************************************************************************)
NextDisplay ==
    \/ TypeText(docValid)
    \/ AnalyzeClickUpTo(MaxDisplays)
    \/ AnalyzeFetched(1)
    \/ \E resp \in AnalyzeResponses : AnalyzeResponse(1, resp)

SpecDisplay == Init /\ [][NextDisplay]_vars

(***************************************************************************)
(* The aggregators on their own: processSeverityData and processBranchData *)
(* applied to an analysis result whose findings or participants are drawn  *)
(* from the labels below.                                                  *)
(***************************************************************************)
SeverityLabels ==
    {sHigh, <<"H","i","g","h">>, <<"H","I","G","H">>, sMedium,
     <<"M","e","d","i","u","m">>, sLow, <<"L","O","W">>,
     <<"c","r","i","t","i","c","a","l">>,
     <<"v","e","r","y"," ","h","i","g","h">>, sUnspecifiedLc, <<>>}

\* a finding with the given severity, and one without the field
FindingChoices ==
    {JObj(<<<<sSeverity, JStr(l)>>>>) : l \in SeverityLabels} \cup {JObj(<<>>)}

BranchLabels ==
    {<<"N","Y","C">>, <<"L","A">>, <<"2">>, <<"1">>, <<"0","1">>,
     sUnspecified, sConstructor, sProto, <<>>}

ParticipantChoices ==
    {JObj(<<<<sBranch, JStr(l)>>>>) : l \in BranchLabels} \cup {JObj(<<>>)}

SeqsUpTo(S, n) == UNION {[1..k -> S] : k \in 0..n}

AnalysisWith(key, val) == JObj(<<<<sAnalysis, JObj(<<<<key, val>>>>)>>>>)

AggDocuments ==
    {AnalysisWith(sFindings, JArr(fs)) : fs \in SeqsUpTo(FindingChoices, MaxFindings)}
    \cup
    {AnalysisWith(sParticipants, JArr(ps)) :
        ps \in SeqsUpTo(ParticipantChoices, MaxParticipants)}
    \cup {JObj(<<<<sAnalysis, JObj(<<>>)>>>>)}

InitAgg ==
    /\ InitPage
    /\ aggIn \in AggDocuments
    /\ aggOut = AggIdle

ApplySeverity ==
    /\ aggOut.op = "none"
    /\ aggOut' = [op |-> "severity", r |-> processSeverityData(aggIn)]
    /\ UNCHANGED <<aggIn, pageVars>>

ApplyBranch ==
    /\ aggOut.op = "none"
    /\ aggOut' = [op |-> "branch", r |-> processBranchData(aggIn)]
    /\ UNCHANGED <<aggIn, pageVars>>

\* displayResults(aggIn) on a page that has displayed nothing yet
ApplyDisplay ==
    /\ aggOut.op = "none"
    /\ aggOut' = [op |-> "display", r |-> displayResults(aggIn, BlankView)]
    /\ UNCHANGED <<aggIn, pageVars>>

NextAgg == ApplySeverity \/ ApplyBranch \/ ApplyDisplay

SpecAgg == InitAgg /\ [][NextAgg]_vars

(***************************************************************************)
(* Properties of the aggregators (checked under SpecAgg).                  *)
(***************************************************************************)
\* the list at data.analysis[key], empty when the field is missing
AggList(key) ==
    LET l == Get(Get(aggIn, sAnalysis), key) IN
    IF TagOf(l) = "arr" THEN ValOf(l) ELSE <<>>

IsCount(x) == TagOf(x) = "num"

RECURSIVE SumCounts(_)
SumCounts(xs) ==
    IF xs = <<>> THEN 0
    ELSE (IF IsCount(xs[1]) THEN ValOf(xs[1]) ELSE 0) + SumCounts(Tail(xs))

FourZeros == <<JNum(0), JNum(0), JNum(0), JNum(0)>>

\* C4: for every findings list the four severity bucket counts sum to the
\* number of findings, and a missing or empty list yields [0,0,0,0] without
\* an error.
C4_SeverityCountsSumToFindings ==
    aggOut.op = "severity" =>
        /\ aggOut.r.ok
        /\ SumCounts(aggOut.r.values) = Len(AggList(sFindings))
        /\ (AggList(sFindings) = <<>> => aggOut.r.values = FourZeros)

\* the bucket (1 high, 2 medium, 3 low, 4 unspecified) the case-folded
\* severity of a finding names
BucketOf(finding) ==
    LET sev == Get(finding, sSeverity)
        folded == IF TagOf(sev) = "str" THEN ToLowerCase(ValOf(sev)) ELSE <<>>
    IN CASE folded = sHigh   -> 1
         [] folded = sMedium -> 2
         [] folded = sLow    -> 3
         [] OTHER            -> 4

\* C5: each finding is counted in the high, medium or low bucket exactly when
\* its case-folded severity equals that label, and every other finding (no
\* severity, "critical", "very high", ...) in the unspecified bucket.
C5_SeverityClassifiedByFoldedLabel ==
    aggOut.op = "severity" =>
        /\ aggOut.r.ok
        /\ aggOut.r.values =
             [b \in 1..4 |->
                JNum(Cardinality({i \in 1..Len(AggList(sFindings)) :
                                    BucketOf(AggList(sFindings)[i]) = b}))]

\* the branch of a participant, a missing (or empty) one being "Unspecified"
BranchOf(p) ==
    LET b == Get(p, sBranch) IN
    IF TagOf(b) = "str" /\ ValOf(b) # <<>> THEN ValOf(b) ELSE sUnspecified

AggBranches ==
    [i \in 1..Len(AggList(sParticipants)) |-> BranchOf(AggList(sParticipants)[i])]

\* C6: one bucket per distinct branch value, the bucket counts sum to the
\* number of participants, and the colour at position i is a function of i
\* alone: (i * 137.508) mod 360.
C6_OneBucketPerBranch ==
    aggOut.op = "branch" =>
        /\ aggOut.r.ok
        /\ Len(aggOut.r.labels) = Cardinality({AggBranches[i] : i \in 1..Len(AggBranches)})
        /\ \A i \in 1..Len(aggOut.r.values) : IsCount(aggOut.r.values[i])
        /\ SumCounts(aggOut.r.values) = Len(AggBranches)
        /\ \A i \in 1..Len(aggOut.r.colors) :
              aggOut.r.colors[i] = ((i - 1) * 137508) % 360000

FirstSeen(b) == CHOOSE i \in 1..Len(AggBranches) :
                    /\ AggBranches[i] = b
                    /\ \A j \in 1..(i - 1) : AggBranches[j] # b

\* C7: the branch buckets come in the order in which their branch values
\* first occur in the participants list.
C7_BucketsInFirstSeenOrder ==
    aggOut.op = "branch" =>
        /\ aggOut.r.ok
        /\ \A i, j \in 1..Len(aggOut.r.labels) :
              i < j => FirstSeen(aggOut.r.labels[i]) < FirstSeen(aggOut.r.labels[j])

(***************************************************************************)
(* Properties of the page (checked under Spec).                            *)
(***************************************************************************)
Unparseable(text) == ~JSONParse(Trim(text)).ok

\* C1: a click on Analyze with text that is not valid JSON issues no /analyze
\* request and leaves the current analysis, the stored analysis, the rendered
\* panels and the chart handles as they were.
C1_UnparseableTextChangesNothing ==
    [][(AnalyzeClick /\ Unparseable(auditData)) =>
          UNCHANGED <<analyzeReqs, nAnalyze, currentAnalysis, storage, viewVars,
                      resultsShown>>]_vars

C1_Witness ==
    /\ last = Event("analyzeClick", "syntaxError")
    /\ auditData = docUnclosed
    /\ Truthy(currentAnalysis)
    /\ storage.has
    /\ resultsShown
    /\ severityChart.alive
    /\ analyzeReqs = <<>>

\* the own member k of a parsed document, if it is an object that has one
OwnMember(x, k) ==
    IF TagOf(x) = "obj" /\ \E i \in 1..Len(ValOf(x)) : ValOf(x)[i][1] = k
    THEN {ValOf(x)[i][2] : i \in {j \in 1..Len(ValOf(x)) : ValOf(x)[j][1] = k}}
    ELSE {}

\* the values found at audit_report.exceptions of a parsed document
AtExceptionsPath(doc) ==
    UNION {OwnMember(r, sExceptions) : r \in OwnMember(doc, sAuditReport)}

\* C2: a click on Analyze with text that parses but has nothing at
\* audit_report.exceptions (no audit_report, no exceptions, or a parsed value
\* that is not an object) issues no request.
C2_NoExceptionsPathNoRequest ==
    [][(/\ AnalyzeClick
        /\ ~Unparseable(auditData)
        /\ AtExceptionsPath(JSONParse(Trim(auditData)).v) = {}) =>
          UNCHANGED <<analyzeReqs, nAnalyze>>]_vars

C2_Witness ==
    /\ last.ev = "analyzeClick"
    /\ last.out \in {"missing", "typeError"}
    /\ auditData \in {docNull, docNumber, docNoReport, docNoExceptions}
    /\ analyzeReqs = <<>>
    /\ nAnalyze = 0

NonEmptyArray(x) == TagOf(x) = "arr" /\ ValOf(x) # <<>>

\* C3 as stated: a request is issued only for a document whose
\* audit_report.exceptions is a non-empty array.
C3_OnlyNonEmptyArraysSent ==
    \A i \in 1..Len(analyzeReqs) :
        /\ JSONParse(analyzeReqs[i].body).ok
        /\ \E x \in AtExceptionsPath(JSONParse(analyzeReqs[i].body).v) : NonEmptyArray(x)

\* values JavaScript takes as true in a condition
PassesCondition(x) ==
    \/ TagOf(x) \in {"arr", "obj"}
    \/ TagOf(x) = "str" /\ ValOf(x) # <<>>
    \/ TagOf(x) = "num" /\ ValOf(x) # 0
    \/ x = JBool(TRUE)

\* C3: a request is issued only for a document whose audit_report.exceptions
\* holds a value that counts as true: any array (an empty one too), any
\* object, a non-empty string, a non-zero number or true.  A document where
\* the value is absent, null, false, 0 or "" is rejected: the click issues
\* no request and leaves the validation alert, or, where the document is
\* null, the alert of the TypeError that reading audit_report of null throws.
C3_OnlyTruthyExceptionsSent ==
    /\ [](\A i \in 1..Len(analyzeReqs) :
            /\ JSONParse(analyzeReqs[i].body).ok
            /\ \E x \in AtExceptionsPath(JSONParse(analyzeReqs[i].body).v) :
                   PassesCondition(x))
    /\ [][(/\ AnalyzeClick
           /\ ~Unparseable(auditData)
           /\ \A x \in AtExceptionsPath(JSONParse(Trim(auditData)).v) :
                  ~PassesCondition(x)) =>
             /\ UNCHANGED <<analyzeReqs, nAnalyze>>
             /\ alert' = IF JSONParse(Trim(auditData)).v = JNull
                         THEN [state |-> "show", type |-> "danger",
                               message |-> Chars("Analysis failed: ")
                                           \o msgTypeError]
                         ELSE [state |-> "show", type |-> "danger",
                               message |-> msgValidation]]_vars

C3_Witness ==
    /\ last = Event("analyzeClick", "send")
    /\ Len(analyzeReqs) = 1
    /\ analyzeReqs[1].body = docEmptyExceptions
    /\ analyzeBtn.disabled

\* C8: a click on Generate report while there is no current analysis shows
\* the warning, issues no /generate-report request, offers no download and
\* leaves the report control enabled.
C8_ReportWithoutAnalysisWarns ==
    [][(ReportClick /\ currentAnalysis = JNull) =>
          /\ alert' = [state |-> "show", type |-> "warning", message |-> msgNoAnalysis]
          /\ UNCHANGED <<reportReqs, downloads>>
          /\ ~generateReportBtn'.disabled]_vars

C8_Witness ==
    /\ last = Event("reportClick", "warned")
    /\ currentAnalysis = JNull
    /\ alert.type = "warning"
    /\ reportReqs = <<>>
    /\ downloads = <<>>
    /\ ~generateReportBtn.disabled

\* C9: when a second analysis succeeds, the current analysis, the stored
\* value, both panels and both charts are what the second response alone
\* gives on an empty page; nothing of the first is left.
C9_LaterAnalysisReplacesEarlier ==
    [][\A i \in 1..Len(analyzeReqs) : \A resp \in AnalyzeResponses :
          (/\ last'.out \in {"displayed", "replaced"}
           /\ AnalyzeResponse(i, resp)) =>
             LET data == JSONParse(BodyText(resp.body)).v IN
             /\ currentAnalysis' = data
             /\ storage' = [has |-> TRUE, text |-> JSONStringify(data)]
             /\ View' = displayResults(data, BlankView).view
             /\ resultsShown']_vars

C9_Witness ==
    /\ last = Event("analyzeResponse", "replaced")
    /\ nAnalyze = 2
    /\ analyzeReqs = <<>>
    /\ currentAnalysis = JSONParse(bodyTwoFindings).v
    /\ Len(detailedFindings.entries) = 2
    /\ liveSeverity = 1
    /\ liveBranch = 1

\* C10: at most one /analyze request and at most one /generate-report request
\* are in flight, and each control is disabled exactly while its request is
\* in flight.
C10_OneRequestInFlightPerControl ==
    /\ Len(analyzeReqs) <= 1
    /\ Len(reportReqs) <= 1
    /\ analyzeBtn.disabled <=> (Len(analyzeReqs) = 1)
    /\ generateReportBtn.disabled <=> (Len(reportReqs) = 1)

C10_Witness ==
    /\ Len(analyzeReqs) = 1
    /\ Len(reportReqs) = 1
    /\ analyzeBtn.disabled
    /\ generateReportBtn.disabled

\* C11: the body of a /generate-report request is the JSON encoding of the
\* current analysis as the click finds it, which is the text the latest
\* stored analysis response left in storage; no other step, an /analyze
\* response handled later included, changes the body of a request in flight.
C11_ReportBodyIsAnalysisAtClick ==
    [][/\ (ReportClick /\ Truthy(currentAnalysis)) =>
            /\ reportReqs' = Append(reportReqs,
                                    [body |-> JSONStringify(currentAnalysis)])
            /\ storage = [has |-> TRUE, text |-> JSONStringify(currentAnalysis)]
            /\ UNCHANGED analyzeReqs
       /\ Len(reportReqs') <= Len(reportReqs) =>
            \A j \in 1..Len(reportReqs') :
                \E k \in 1..Len(reportReqs) : reportReqs'[j] = reportReqs[k]]_vars

\* a report is in flight and an analysis handled after the click has put
\* another value in the slot
C11_Witness ==
    /\ Len(reportReqs) = 1
    /\ last.ev = "analyzeResponse"
    /\ last.out \in {"displayed", "replaced"}
    /\ Truthy(currentAnalysis)
    /\ reportReqs[1].body # JSONStringify(currentAnalysis)

(***************************************************************************)
(* Properties of the chart slots (checked under SpecDisplay).              *)
(***************************************************************************)
\* the slot holds an instance that destroy() has already been called on
HoldsDestroyed(chart) == chart.set /\ ~chart.alive

\* the response handler has called displayResults in this step
DisplayStep ==
    /\ analyzeReqs # <<>>
    /\ analyzeReqs' = <<>>
    /\ last'.ev = "analyzeResponse"
    /\ last'.out \in {"displayed", "replaced", "displayThrew"}

\* C12: each chart slot has at most one instance that was created and not
\* destroyed, and displayResults never calls destroy() on an instance that
\* was destroyed before (the slot it starts from holds no destroyed
\* instance), also after a display that failed part-way.
C12_ChartsDestroyedOnce ==
    /\ [](liveSeverity <= 1 /\ liveBranch <= 1)
    /\ [][DisplayStep =>
            ~HoldsDestroyed(severityChart) /\ ~HoldsDestroyed(branchChart)]_vars

(***************************************************************************)
(* Recovery from errors (checked under Spec).                              *)
(***************************************************************************)
\* how a handler ends when it has handled an error of the Analyze flow
AnalyzeErrors ==
    {Event("analyzeClick", o) : o \in {"syntaxError", "typeError", "missing"}}
    \cup {Event("analyzeResponse", o) :
            o \in {"serviceError", "jsonRejected", "networkError", "displayThrew"}}

\* ... and of the report flow
ReportErrors ==
    {Event("reportClick", "warned"),
     Event("reportResponse", "serviceError"),
     Event("reportResponse", "blobRejected"),
     Event("reportResponse", "networkError")}

AnalyzeReady ==
    /\ "analyze" \in wired
    /\ analyzeBtn = [disabled |-> FALSE, spinner |-> FALSE, text |-> "Analyze Data"]

ReportReady ==
    generateReportBtn =
        [disabled |-> FALSE, spinner |-> FALSE, text |-> "Generate Word Report"]

\* the text passes the validation of the click handler
ValidText(text) ==
    /\ ~Unparseable(text)
    /\ \E x \in AtExceptionsPath(JSONParse(Trim(text)).v) : PassesCondition(x)

\* C13 as stated: after any handled error the Analyze control is enabled
\* with its normal label, and after every handled report response the report
\* control is.
C13_EveryErrorLeavesAnalyzeEnabled ==
    /\ last \in AnalyzeErrors \cup ReportErrors => AnalyzeReady
    /\ last.ev = "reportResponse" => ReportReady

\* C13: an error of the Analyze flow leaves no request in flight and the
\* Analyze control enabled with its normal label; an error of the report
\* flow does not touch the Analyze control, which is then enabled unless an
\* /analyze request is still in flight; in both cases a following Submit of
\* valid text issues a new /analyze request.  The report control is enabled
\* with its normal label after every handled report response.
C13_ErrorsLeaveControlsUsable ==
    /\ [](/\ last \in AnalyzeErrors => analyzeReqs = <<>> /\ AnalyzeReady
          /\ last \in ReportErrors /\ analyzeReqs = <<>> => AnalyzeReady
          /\ last.ev = "reportResponse" => ReportReady /\ reportReqs = <<>>)
    /\ [][(/\ last \in AnalyzeErrors \cup ReportErrors
           /\ ValidText(auditData)
           /\ AnalyzeClick) =>
             analyzeReqs' = Append(analyzeReqs, [body |-> Trim(auditData)])]_vars

\* a service failure has been handled, valid text is in the textarea and
\* the control can be clicked again
C13_Witness ==
    /\ last = Event("analyzeResponse", "serviceError")
    /\ AnalyzeReady
    /\ ValidText(auditData)
    /\ nAnalyze < MaxAnalyses

\* the message of a failure response: its error field, or the generic text
ServiceMessage(resp) ==
    LET p == JSONParse(BodyText(resp.body))
        e == IF p.ok THEN OwnMember(p.v, sError) ELSE {}
    IN IF \E x \in e : TagOf(x) = "str" /\ ValOf(x) # <<>>
       THEN ValOf(CHOOSE x \in e : TagOf(x) = "str")
       ELSE Chars("Analysis failed")

\* C14: when /analyze answers with a non-success status, the alert carries
\* the error field of the response when it has one and the generic text
\* 'Analysis failed' otherwise (no error field, or a body that is not JSON),
\* the Analyze control is enabled again and the analysis, the stored value
\* and the panels are as before the request.
C14_FailureAlertCarriesServiceMessage ==
    [][\A i \in 1..Len(analyzeReqs) : \A resp \in AnalyzeResponses :
          (~resp.ok /\ resp.complete /\ AnalyzeResponse(i, resp)) =>
             /\ alert' = [state |-> "show", type |-> "danger",
                          message |-> Chars("Analysis failed: ")
                                      \o ServiceMessage(resp)]
             /\ AnalyzeReady'
             /\ UNCHANGED <<currentAnalysis, storage, viewVars, resultsShown>>]_vars

\* The alert is a child of #resultsSection (showAlert prepends it there): the
\* user sees it while it has its 'show' class and the section is displayed.
AlertVisible == alert.state = "show" /\ resultsShown

\* C15: whenever Submit aborts on a validation failure (unparseable text, or
\* nothing at audit_report.exceptions), an error alert is visible to the
\* user afterwards, in every state the click can occur in.
C15_ValidationAlertVisible ==
    [][(AnalyzeClick /\ ~ValidText(auditData)) =>
          /\ UNCHANGED analyzeReqs
          /\ alert'.type = "danger"
          /\ AlertVisible']_vars

\* C16: the stored item 'previousAnalysis' is present exactly when the
\* current analysis is not empty, and it is then the JSON encoding of the
\* current analysis.
C16_StoredIffAnalysisPresent ==
    /\ storage.has <=> currentAnalysis # JNull
    /\ storage.has => storage.text = JSONStringify(currentAnalysis)

(***************************************************************************)
(* Page load (checked under Spec).                                         *)
(***************************************************************************)
\* C17: after a page load with a stored analysis (any value the success path
\* of an earlier session has stored), the current analysis is the parsed
\* value, it is rendered and the results section is shown, no request is in
\* flight and the Analyze and Generate-report controls are wired and
\* enabled; after a load with nothing stored, nothing is restored.
C17_RestoreOnLoad ==
    last.ev = "load" =>
        IF storage.has
        THEN /\ JSONParse(storage.text).ok
             /\ currentAnalysis = JSONParse(storage.text).v
             /\ View = displayResults(currentAnalysis, BlankView).view
             /\ displayResults(currentAnalysis, BlankView).ok
             /\ resultsShown
             /\ analyzeReqs = <<>> /\ reportReqs = <<>>
             /\ {"analyze", "report"} \subseteq wired
             /\ AnalyzeReady /\ ReportReady
        ELSE /\ currentAnalysis = JNull
             /\ View = BlankView
             /\ ~resultsShown
             /\ analyzeReqs = <<>> /\ reportReqs = <<>>
             /\ {"analyze", "report"} \subseteq wired
             /\ AnalyzeReady /\ ReportReady

(***************************************************************************)
(* C18: the body of the /analyze request.                                  *)
(***************************************************************************)
AllWs(toks) == \A n \in 1..Len(toks) : toks[n].k \in TrimSpace

\* b is text without its leading and trailing white space: text is b with
\* white space only before and after it, and b neither starts nor ends
\* with white space
StrippedOf(text, b) ==
    /\ \E i \in 0..Len(text) :
          /\ i + Len(b) <= Len(text)
          /\ SubSeq(text, i + 1, i + Len(b)) = b
          /\ AllWs(SubSeq(text, 1, i))
          /\ AllWs(SubSeq(text, i + Len(b) + 1, Len(text)))
    /\ b # <<>> => b[1].k \notin TrimSpace /\ b[Len(b)].k \notin TrimSpace

\* C18, as stated: a Submit of text that passes validation issues exactly
\* one /analyze request, and the body of that request is the textarea
\* content, character for character.
C18_BodyIsTextareaVerbatim ==
    [][(AnalyzeClick /\ ValidText(auditData)) =>
           analyzeReqs' = Append(analyzeReqs, [body |-> auditData])]_vars

\* C18, amended: a Submit of text that passes validation issues exactly one
\* /analyze request, and the body of that request is the textarea content
\* without its leading and trailing white space, otherwise character for
\* character (the text, not a re-serialisation of the parsed document).
C18_BodyIsTrimmedTextarea ==
    [][(AnalyzeClick /\ ValidText(auditData)) =>
           /\ Len(analyzeReqs') = Len(analyzeReqs) + 1
           /\ SubSeq(analyzeReqs', 1, Len(analyzeReqs)) = analyzeReqs
           /\ StrippedOf(auditData, analyzeReqs'[Len(analyzeReqs')].body)
           /\ UNCHANGED <<auditData, reportReqs>>]_vars

\* a request is in flight for a textarea that holds white space around the
\* document, and its body is not the textarea content
C18_Witness ==
    /\ last = Event("analyzeClick", "send")
    /\ auditData = docValid
    /\ Len(analyzeReqs) = 1
    /\ analyzeReqs[1].body # auditData
    /\ StrippedOf(auditData, analyzeReqs[1].body)

(***************************************************************************)
(* C19: the completion of a /generate-report request.                      *)
(***************************************************************************)
\* C19 as stated: when a /generate-report request completes, the report
\* control is enabled again with its normal label; a file named
\* audit_report.docx is downloaded exactly when the status was a success; a
\* non-success status leaves the generic 'Report generation failed' alert;
\* and the current analysis, the stored value, the panels, the charts and
\* the results section are as they were.
C19_DownloadOnEverySuccessStatus ==
    [][\A i \in 1..Len(reportReqs) :
          /\ ReportResponse(i, FALSE) =>
                /\ ReportReady'
                /\ downloads' = downloads
                /\ alert' = [state |-> "show", type |-> "danger",
                             message |-> Chars("Report generation failed: ")
                                         \o Chars("Report generation failed")]
                /\ UNCHANGED <<currentAnalysis, storage, viewVars, resultsShown>>
          /\ \A read \in BOOLEAN :
                ReportBlob(i, read) =>
                   /\ ReportReady'
                   /\ downloads' = Append(downloads, "audit_report.docx")
                   /\ UNCHANGED <<currentAnalysis, storage, viewVars,
                                  resultsShown>>]_vars

\* C19: a non-success status ends the /generate-report request at once: the
\* report control is enabled again with its normal label, nothing is
\* downloaded and the alert reads 'Report generation failed: Report
\* generation failed'.  A success status ends nothing yet: the control stays
\* busy and nothing is downloaded or shown until the body has been read.
\* When the read ends, the control is enabled again with its normal label; a
\* file named audit_report.docx is downloaded exactly when the body was read;
\* a rejected read downloads nothing and leaves the alert 'Report generation
\* failed: ' followed by the engine's message.  An alert is visible, as the
\* results section is shown.  In every case the current analysis, the stored
\* value, the panels, the charts and the results section are as they were.
C19_ReportCompletionKeepsDisplay ==
    [][\A i \in 1..Len(reportReqs) :
          /\ \A ok \in BOOLEAN :
                ReportResponse(i, ok) =>
                   /\ downloads' = downloads
                   /\ IF ok
                      THEN UNCHANGED <<alert, generateReportBtn, reportReqs>>
                      ELSE /\ ReportReady'
                           /\ reportReqs' = <<>>
                           /\ alert' = [state |-> "show", type |-> "danger",
                                        message |->
                                           Chars("Report generation failed: ")
                                           \o Chars("Report generation failed")]
                           /\ AlertVisible'
                   /\ UNCHANGED <<currentAnalysis, storage, viewVars,
                                  resultsShown>>
          /\ \A read \in BOOLEAN :
                ReportBlob(i, read) =>
                   /\ ReportReady'
                   /\ reportReqs' = <<>>
                   /\ IF read
                      THEN /\ downloads' = Append(downloads, "audit_report.docx")
                           /\ alert' = alert
                      ELSE /\ downloads' = downloads
                           /\ alert' = [state |-> "show", type |-> "danger",
                                        message |->
                                           Chars("Report generation failed: ")
                                           \o msgNetworkError]
                           /\ AlertVisible'
                   /\ UNCHANGED <<currentAnalysis, storage, viewVars,
                                  resultsShown>>]_vars

\* the service answered a report request with a success status and the read
\* of the body failed: nothing was downloaded, the alert carries the engine's
\* message, the control is enabled again and the display still holds the
\* analysis
C19_Witness ==
    /\ last = Event("reportResponse", "blobRejected")
    /\ downloads = <<>>
    /\ alert = ReportAlert(msgNetworkError)
    /\ ReportReady
    /\ resultsShown
    /\ Truthy(currentAnalysis)
    /\ liveSeverity = 1

(***************************************************************************)
(* C20: the file upload.                                                   *)
(***************************************************************************)
\* C20: in every state of a page whose Analyze control works (no request,
\* an /analyze request or a /generate-report request in flight, results
\* shown or not), choosing a file replaces the textarea content with the
\* text of the file when the read completes, and that step issues no
\* request, leaves the bodies of the requests in flight, the current
\* analysis, the stored value, the panels, the charts and both controls
\* as they were.
C20_UploadOnlyReplacesTextarea ==
    "analyze" \in wired =>
        \A d \in Documents :
            ENABLED (/\ UploadRead(d)
                     /\ auditData' = d
                     /\ UNCHANGED <<analyzeReqs, reportReqs, currentAnalysis,
                                    storage, viewVars, resultsShown,
                                    analyzeBtn, generateReportBtn>>)

(***************************************************************************)
(* C21: the findings panel (checked under SpecAgg).                        *)
(***************************************************************************)
\* the badge colour the page gives a severity label: the first of high,
\* medium, low that the case-folded label contains
BadgeFor(finding) ==
    LET sev == Get(finding, sSeverity)
        folded == IF TagOf(sev) = "str" THEN ToLowerCase(ValOf(sev)) ELSE <<>>
    IN CASE Includes(folded, sHigh)   -> "danger"
         [] Includes(folded, sMedium) -> "warning"
         [] Includes(folded, sLow)    -> "success"
         [] OTHER                     -> "secondary"

\* C21: displayResults renders one findings entry per finding, numbered
\* 1..n in input order, and renders the placeholder 'No findings available'
\* exactly when the findings list is missing or empty; in that case the
\* severity values handed to the chart are all zero.
C21_OneEntryPerFinding ==
    aggOut.op = "display" =>
        LET fs == AggList(sFindings)
            panel == aggOut.r.view.detailedFindings
        IN /\ aggOut.r.ok
           /\ panel.rendered
           /\ Len(panel.entries) = Len(fs)
           /\ \A i \in 1..Len(fs) :
                 /\ panel.entries[i].n = i
                 /\ panel.entries[i].badge = BadgeFor(fs[i])
           /\ panel.placeholder <=> fs = <<>>
           /\ fs = <<>> => aggOut.r.view.severityChart.values = FourZeros

\* two findings of different severities were rendered, in their order
C21_Witness ==
    /\ aggOut.op = "display"
    /\ Len(AggList(sFindings)) = 2
    /\ aggOut.r.ok
    /\ aggOut.r.view.detailedFindings.entries[1].badge = "success"
    /\ aggOut.r.view.detailedFindings.entries[2].badge = "danger"
    /\ aggOut.r.view.detailedFindings.entries[2].n = 2
    /\ ~aggOut.r.view.detailedFindings.placeholder

(***************************************************************************)
(* C22: what writes the current analysis and the stored item.              *)
(***************************************************************************)
\* a step that ends the success path of an /analyze response: a 2xx
\* response whose body is JSON has been taken off the pending requests, its
\* value is the current analysis and its encoding is stored
SuccessStep ==
    /\ Len(analyzeReqs') < Len(analyzeReqs)
    /\ last'.ev = "analyzeResponse"
    /\ \E resp \in AnalyzeResponses :
          /\ resp.ok
          /\ resp.complete
          /\ JSONParse(BodyText(resp.body)).ok
          /\ currentAnalysis' = JSONParse(BodyText(resp.body)).v
          /\ storage' = [has |-> TRUE, text |-> JSONStringify(currentAnalysis')]

\* a page load: the slot takes what the stored item holds, if any
RestoreStep ==
    /\ last'.ev = "load"
    /\ storage' = storage
    /\ currentAnalysis' = IF storage.has /\ JSONParse(storage.text).ok
                          THEN JSONParse(storage.text).v ELSE JNull

\* the events that are no success path: a Submit (validation failure or
\* request sent), a non-success, rejected or unparseable /analyze response,
\* a report click and a report response of any outcome
QuietEvents ==
    {Event("analyzeClick", o) : o \in {"syntaxError", "typeError", "missing", "send"}}
    \cup {Event("analyzeResponse", o) : o \in {"serviceError", "networkError", "jsonRejected"}}
    \cup {Event("reportClick", o) : o \in {"warned", "send"}}
    \cup {Event("reportResponse", o) :
            o \in {"downloaded", "serviceError", "blobRejected", "networkError"}}

\* C22: the current analysis and the stored item change only in the success
\* path of an /analyze response, and the current analysis at the restore of
\* a page load; a validation failure, a non-success, rejected or
\* unparseable /analyze response, a report request in any outcome and an
\* edit of the textarea leave both as they were.
C22_OnlySuccessPathWritesAnalysis ==
    [][/\ storage' # storage => SuccessStep
       /\ currentAnalysis' # currentAnalysis => SuccessStep \/ RestoreStep
       /\ (last' # last /\ last' \in QuietEvents) =>
              UNCHANGED <<currentAnalysis, storage>>
       /\ (auditData' # auditData /\ last'.ev # "load") =>
              UNCHANGED <<currentAnalysis, storage>>]_vars

\* an analysis is held and stored, and a later /analyze request was refused
\* by the service
C22_Witness ==
    /\ last = Event("analyzeResponse", "serviceError")
    /\ Truthy(currentAnalysis)
    /\ storage = [has |-> TRUE, text |-> JSONStringify(currentAnalysis)]
    /\ resultsShown

(***************************************************************************)
(* C23: what the shown results are rendered from.                          *)
(***************************************************************************)
\* the panels and charts on the page are those displayResults gives for
\* the current analysis
RenderedFromCurrent ==
    LET Matches(d) ==
            /\ d.ok
            /\ executiveSummary = d.view.executiveSummary
            /\ detailedFindings = d.view.detailedFindings
            /\ severityChart = d.view.severityChart
            /\ branchChart = d.view.branchChart
    IN Matches(displayResults(currentAnalysis, BlankView))

\* C23: in every reachable state in which the results section is shown, the
\* executive-summary panel, the findings panel and both charts are rendered
\* from the value the current analysis slot holds, whatever 2xx response
\* bodies the service has returned (one without the analysis field and one
\* that makes rendering fail part-way included).
C23_ShownResultsMatchAnalysis ==
    resultsShown => RenderedFromCurrent

(***************************************************************************)
(* C24: the results section and the current analysis.                      *)
(***************************************************************************)
\* C24: whenever the results section is shown a current analysis exists, so
\* a click on the enabled Generate-report control issues a request and not
\* the 'No analysis results available' warning; and once the slot holds an
\* analysis no later step of the same page session empties it.
C24_ShownResultsHaveAnalysis ==
    /\ [](resultsShown => Truthy(currentAnalysis))
    /\ [][(resultsShown /\ ReportClick) =>
             /\ last' = Event("reportClick", "send")
             /\ Len(reportReqs') = Len(reportReqs) + 1]_vars
    /\ [][(Truthy(currentAnalysis) /\ last'.ev # "load") =>
             Truthy(currentAnalysis')]_vars

====
